---- MODULE Spec2Model ----
(***************************************************************************)
(* Expression algebra and Series operation engine of bach.                 *)
(*                                                                         *)
(* A text (Python str) is a sequence of one-character strings, so that     *)
(* splitting, quoting and escaping are computed character by character.    *)
(* An ExpressionToken is a record with a kind (its class) and its field;   *)
(* an Expression is a record with a kind (its class) and data, the tuple   *)
(* of tokens and nested Expressions.                                       *)
(***************************************************************************)
EXTENDS Integers, Sequences, FiniteSets, TLC

VARIABLES ex, esteps, elast, cur, csteps, cfrom, cmarks, slast

vars == <<ex, esteps, elast, cur, csteps, cfrom, cmarks, slast>>
evars == <<ex, esteps, elast>>
svars == <<cur, csteps, cfrom, cmarks, slast>>

\* ------------------------------------------------------------------------
\* Bounds of the model
\* ------------------------------------------------------------------------

\* largest number of calls chained on the Expression a factory gave
MaxSteps == 1

\* largest number of Series operations chained on one Series
MaxOps == 1

\* ------------------------------------------------------------------------
\* Texts
\* ------------------------------------------------------------------------

RECURSIVE Replace1(_, _, _)
\* str.replace(ch, to) for a one-character ch
Replace1(s, ch, to) ==
    IF s = <<>> THEN <<>>
    ELSE (IF Head(s) = ch THEN to ELSE <<Head(s)>>) \o Replace1(Tail(s), ch, to)

\* sql_models.util.quote_identifier: double the double quotes, wrap in double quotes
quote_identifier(name) == <<"\"">> \o Replace1(name, "\"", <<"\"", "\"">>) \o <<"\"">>

\* sql_models.util.quote_string: double the single quotes, wrap in single quotes
quote_string(value) == <<"'">> \o Replace1(value, "'", <<"'", "'">>) \o <<"'">>

\* SqlModelSpec.escape_format_string: double every brace
escape_format_string(s) ==
    Replace1(Replace1(s, "{", <<"{", "{">>), "}", <<"}", "}">>)

RECURSIVE SplitFrom(_, _)
SplitFrom(rest, piece) ==
    IF rest = <<>> THEN <<piece>>
    ELSE IF Len(rest) >= 2 /\ rest[1] = "{" /\ rest[2] = "}"
         THEN <<piece>> \o SplitFrom(SubSeq(rest, 3, Len(rest)), <<>>)
         ELSE SplitFrom(Tail(rest), Append(piece, Head(rest)))

\* fmt.split('{}'): the pieces of fmt between the non-overlapping '{}' markers
SplitMarkers(fmt) == SplitFrom(fmt, <<>>)

\* ------------------------------------------------------------------------
\* ExpressionToken variants
\* ------------------------------------------------------------------------

RawToken(raw) == [kind |-> "RawToken", raw |-> raw]
AggFunctionRawToken(raw) == [kind |-> "AggFunctionRawToken", raw |-> raw]
ColumnReferenceToken(column_name) ==
    [kind |-> "ColumnReferenceToken", column_name |-> column_name]
ModelReferenceToken(model) == [kind |-> "ModelReferenceToken", model |-> model]
StringValueToken(value) == [kind |-> "StringValueToken", value |-> value]

\* ModelReferenceToken.refname: 'reference' followed by the model's hash
refname(tok) == <<"r", "e", "f", "e", "r", "e", "n", "c", "e">> \o tok.model.hash

\* isinstance(d, RawToken): AggFunctionRawToken is a subclass of RawToken
IsRawToken(d) == d.kind \in {"RawToken", "AggFunctionRawToken"}

\* ------------------------------------------------------------------------
\* Expression and its tagged subclasses
\* ------------------------------------------------------------------------

\* the classes expression.py defines
ExpressionClasses ==
    {"Expression", "NonAtomicExpression", "IndependentSubqueryExpression",
     "SingleValueExpression", "ConstValueExpression"}

\* the tagged subclasses of Expression that the Series layer uses to detect
\* aggregated and windowed expressions; they are defined in no source file
\* at hand and stand for what the specification says of them
TaggedAggregationClasses == {"AggregateFunctionExpression", "WindowFunctionExpression"}

\* isinstance(d, Expression)
IsExpression(d) == d.kind \in ExpressionClasses \cup TaggedAggregationClasses

\* isinstance(e, NonAtomicExpression)
IsNonAtomic(e) == e.kind = "NonAtomicExpression"

RECURSIVE FlattenDataAll(_)
\* FlattenData splicing the data of every child Expression, of any class
FlattenDataAll(data) ==
    IF data = <<>> THEN <<>>
    ELSE (IF IsExpression(Head(data)) THEN Head(data).data ELSE <<Head(data)>>)
         \o FlattenDataAll(Tail(data))

RECURSIVE FlattenData(_)
\* the flattening of Expression.__init__: the data of a child whose type is
\* exactly Expression is spliced in place; every other element is kept
FlattenData(data) ==
    IF data = <<>> THEN <<>>
    ELSE (IF Head(data).kind = "Expression" THEN Head(data).data ELSE <<Head(data)>>)
         \o FlattenData(Tail(data))

\* cls(data) for a list of tokens and Expressions
NewExpression(cls, data) == [kind |-> cls, data |-> FlattenData(data)]

\* cls(e) for an Expression e: the data of e is taken and flattened again,
\* the class of e is not kept
WrapExpression(cls, e) == NewExpression(cls, e.data)

\* the Expression an operand of construct stands for: a Series gives its expression
ArgExpression(arg) == IF IsExpression(arg) THEN arg ELSE arg.expression

\* OperandData with the parentheses put around every operand
OperandDataParenthesized(arg) ==
    <<RawToken(<<"(">>), ArgExpression(arg), RawToken(<<")">>)>>

\* OperandData with the parentheses left out
OperandDataBare(arg) ==
    <<ArgExpression(arg)>>

\* what construct inserts for one operand
OperandData(arg) ==
    LET arg_expr == ArgExpression(arg)
    IN IF IsNonAtomic(arg_expr)
       THEN <<RawToken(<<"(">>), arg_expr, RawToken(<<")">>)>>
       ELSE <<arg_expr>>

RECURSIVE ConstructDataReversed(_, _, _)
\* ConstructData with the operands taken from the last to the first
ConstructDataReversed(sub_strs, args, i) ==
    IF i > Len(sub_strs) THEN <<>>
    ELSE (IF i > 1 THEN OperandData(args[Len(args) + 2 - i]) ELSE <<>>)
         \o (IF sub_strs[i] # <<>> THEN <<RawToken(sub_strs[i])>> ELSE <<>>)
         \o ConstructDataReversed(sub_strs, args, i + 1)

RECURSIVE ConstructData(_, _, _)
\* the loop of construct over the pieces of fmt, from piece i on
ConstructData(sub_strs, args, i) ==
    IF i > Len(sub_strs) THEN <<>>
    ELSE (IF i > 1 THEN OperandData(args[i - 1]) ELSE <<>>)
         \o (IF sub_strs[i] # <<>> THEN <<RawToken(sub_strs[i])>> ELSE <<>>)
         \o ConstructData(sub_strs, args, i + 1)

NoValue == [kind |-> "NoValue"]
Raised(err) == [err |-> err, val |-> NoValue]
Returned(val) == [err |-> "None", val |-> val]

\* cls.construct(fmt, *args)
Construct(cls, fmt, args) ==
    LET sub_strs == SplitMarkers(fmt)
    IN IF Len(args) # Len(sub_strs) - 1
       THEN Raised("ValueError")
       ELSE Returned(NewExpression(cls, ConstructData(sub_strs, args, 1)))

\* cls.raw, cls.agg_function_raw, cls.string_value, cls.column_reference,
\* cls.model_reference
ExpressionRaw(cls, raw) == NewExpression(cls, <<RawToken(raw)>>)
\* agg_function_raw that makes a plain RawToken
ExpressionAggFunctionRawPlain(cls, raw) == NewExpression(cls, <<RawToken(raw)>>)
ExpressionAggFunctionRaw(cls, raw) == NewExpression(cls, <<AggFunctionRawToken(raw)>>)
ExpressionStringValue(cls, value) == NewExpression(cls, <<StringValueToken(value)>>)
ExpressionColumnReference(cls, field_name) ==
    NewExpression(cls, <<ColumnReferenceToken(field_name)>>)
ExpressionModelReference(cls, model) == NewExpression(cls, <<ModelReferenceToken(model)>>)

RECURSIVE ResolveDataShallow(_, _)
\* ResolveData that leaves nested Expressions as they are
ResolveDataShallow(data, table_name) ==
    IF data = <<>> THEN <<>>
    ELSE LET d == Head(data)
             t == IF table_name # <<>> THEN quote_identifier(table_name) \o <<".">>
                  ELSE <<>>
         IN <<IF ~IsExpression(d) /\ d.kind = "ColumnReferenceToken"
              THEN RawToken(t \o quote_identifier(d.column_name))
              ELSE d>>
            \o ResolveDataShallow(Tail(data), table_name)

RECURSIVE ResolveData(_, _)
RECURSIVE resolve_column_references(_, _)
\* table_name is a text; the empty text stands for None (both are falsy)
ResolveData(data, table_name) ==
    IF data = <<>> THEN <<>>
    ELSE LET d == Head(data)
             t == IF table_name # <<>> THEN quote_identifier(table_name) \o <<".">>
                  ELSE <<>>
         IN <<IF IsExpression(d) THEN resolve_column_references(d, table_name)
              ELSE IF d.kind = "ColumnReferenceToken"
                   THEN RawToken(t \o quote_identifier(d.column_name))
                   ELSE d>>
            \o ResolveData(Tail(data), table_name)

\* resolve_column_references that returns a plain Expression
resolve_column_references_untagged(e, table_name) ==
    NewExpression("Expression", ResolveData(e.data, table_name))

\* Expression.resolve_column_references
resolve_column_references(e, table_name) ==
    NewExpression(e.kind, ResolveData(e.data, table_name))

RECURSIVE is_constant(_)
\* truthiness of Expression.is_constant; ConstValueExpression overrides it
is_constant(e) ==
    IF e.kind = "ConstValueExpression" THEN TRUE
    ELSE LET subs == {i \in DOMAIN e.data : IsExpression(e.data[i])}
         IN subs # {} /\ \A i \in subs : is_constant(e.data[i])

RECURSIVE is_single_value(_)
\* truthiness of Expression.is_single_value; SingleValueExpression and its
\* subclass ConstValueExpression override it
is_single_value(e) ==
    IF e.kind \in {"SingleValueExpression", "ConstValueExpression"} THEN TRUE
    ELSE LET subs == {i \in DOMAIN e.data : IsExpression(e.data[i])}
         IN subs # {} /\ \A i \in subs : is_single_value(e.data[i])

is_independent_subquery(e) == e.kind = "IndependentSubqueryExpression"

RECURSIVE has_aggregate_function(_)
\* Expression.has_aggregate_function; AggregateFunctionExpression reports true
has_aggregate_function(e) ==
    IF e.kind = "AggregateFunctionExpression" THEN TRUE
    ELSE \E i \in DOMAIN e.data :
            IF IsExpression(e.data[i]) THEN has_aggregate_function(e.data[i])
            ELSE e.data[i].kind = "AggFunctionRawToken"

RECURSIVE has_windowed_aggregate_function(_)
\* true for a WindowFunctionExpression and for an Expression that nests one
has_windowed_aggregate_function(e) ==
    IF e.kind = "WindowFunctionExpression" THEN TRUE
    ELSE \E i \in DOMAIN e.data :
            IsExpression(e.data[i]) /\ has_windowed_aggregate_function(e.data[i])

RECURSIVE ReferencesOfData(_, _)
RECURSIVE get_references(_)
\* the loop of get_references: rv is the dict so far, a function from
\* refnames to models; a later entry replaces an earlier one of the same key
ReferencesOfData(data, rv) ==
    IF data = <<>> THEN rv
    ELSE LET d == Head(data)
         IN ReferencesOfData(
                Tail(data),
                IF IsExpression(d) THEN get_references(d) @@ rv
                ELSE IF d.kind = "ModelReferenceToken" THEN (refname(d) :> d.model) @@ rv
                ELSE rv)

\* Expression.get_references
get_references(e) == ReferencesOfData(e.data, <<>>)

ColumnReferenceError == "ValueError: ColumnReferenceTokens should be resolved first"
UnknownTokenError == "Exception: This should never happen"

\* the text of one token of resolved data as to_sql appends it, or what
\* to_sql raises on it
SqlOfToken(d) ==
    IF d.kind = "ColumnReferenceToken" THEN Raised(ColumnReferenceError)
    ELSE IF d.kind = "ModelReferenceToken" THEN Returned(<<"{">> \o refname(d) \o <<"}">>)
    ELSE IF IsRawToken(d) THEN Returned(escape_format_string(d.raw))
    ELSE IF d.kind = "StringValueToken"
         THEN Returned(escape_format_string(quote_string(d.value)))
    ELSE Raised(UnknownTokenError)

\* the texts gathered so far, followed by the next one
Joined(first, rest) ==
    IF first.err # "None" THEN first
    ELSE IF rest.err # "None" THEN rest
    ELSE Returned(first.val \o rest.val)

RECURSIVE SqlOfData(_)
RECURSIVE to_sql(_, _)
RECURSIVE SqlOfDataUnescaped(_)
\* SqlOfData with the text of Raw tokens taken as it is
SqlOfDataUnescaped(data) ==
    IF data = <<>> THEN Returned(<<>>)
    ELSE LET d == Head(data)
         IN Joined(IF IsExpression(d) THEN to_sql(d, <<>>)
                   ELSE IF IsRawToken(d) THEN Returned(d.raw)
                   ELSE SqlOfToken(d),
                   SqlOfDataUnescaped(Tail(data)))

\* the loop of to_sql over resolved data, from left to right; nested
\* Expressions are rendered by to_sql() without table name, and what the
\* first item that raises raises is the outcome
SqlOfData(data) ==
    IF data = <<>> THEN Returned(<<>>)
    ELSE LET d == Head(data)
         IN Joined(IF IsExpression(d) THEN to_sql(d, <<>>) ELSE SqlOfToken(d),
                   SqlOfData(Tail(data)))

\* Expression.to_sql: the text returned, or the error raised
to_sql(e, table_name) == SqlOfData(resolve_column_references(e, table_name).data)

\* ------------------------------------------------------------------------
\* Inputs of the Expression operations
\* ------------------------------------------------------------------------

PlusFmt == <<"{", "}", " ", "+", " ", "{", "}">>
TimesCFmt == <<"{", "}", " ", "*", " ", "c">>
CallFmt == <<"f", "(", ")">>
PairFmt == <<"{", "}", "{", "}">>

Formats == {PlusFmt, TimesCFmt, CallFmt, PairFmt}

RawTexts == {<<"1">>, <<"{", "a", "}">>}
StringValues == {<<"a", "'", "}">>}
ColumnNames == {<<"x">>, <<"q", "\"">>}
TableNames == {<<>>, <<"t">>}

BaseNode(h) == [hash |-> h, of |-> <<>>]
BaseNodes == {BaseNode(<<"h", "1">>), BaseNode(<<"h", "2">>)}

FactoryClasses ==
    {"Expression", "NonAtomicExpression", "IndependentSubqueryExpression",
     "SingleValueExpression", "ConstValueExpression"}

ConstructClasses == {"Expression", "NonAtomicExpression"}

\* ------------------------------------------------------------------------
\* Collaborators of Series: partitions, compiled units, dtypes, values
\* ------------------------------------------------------------------------

\* a partition is None, a GroupBy or a Window (a subclass of GroupBy); index
\* is the tuple of the names of its index Series
NoGroupBy == [kind |-> "None", index |-> <<>>, min_values |-> 0]
GroupBy(index) == [kind |-> "GroupBy", index |-> index, min_values |-> 0]
Window(index, min_values) == [kind |-> "Window", index |-> index, min_values |-> min_values]

IsGroupBy(g) == g.kind \in {"GroupBy", "Window"}
IsWindow(g) == g.kind = "Window"

\* Window.get_window_expression: the expression within the window's framing
get_window_expression(window, expression) ==
    NewExpression("WindowFunctionExpression",
                  <<expression, RawToken(<<" ", "o", "v", "e", "r", " ", "(", ")">>)>>)

\* the compiled unit DataFrame.materialize() gives for series.to_frame():
\* its identity is derived from what it selects
MaterializedNode(series) ==
    [hash |-> <<"m", "_">> \o series.base_node.hash,
     of |-> <<[name |-> series.name, expression |-> series.expression,
               group_by |-> series.group_by, base_node |-> series.base_node]>>]

\* get_series_type_from_dtype(dtype).dtype: 'boolean' is an alias of 'bool'
get_series_type_from_dtype(dtype) == IF dtype = "boolean" THEN "bool" ELSE dtype

\* the lower-case form of each upper-case letter
LowerCaseOf ==
    "A" :> "a" @@ "B" :> "b" @@ "C" :> "c" @@ "D" :> "d" @@ "E" :> "e"
    @@ "F" :> "f" @@ "G" :> "g" @@ "H" :> "h" @@ "I" :> "i" @@ "J" :> "j"
    @@ "K" :> "k" @@ "L" :> "l" @@ "M" :> "m" @@ "N" :> "n" @@ "O" :> "o"
    @@ "P" :> "p" @@ "Q" :> "q" @@ "R" :> "r" @@ "S" :> "s" @@ "T" :> "t"
    @@ "U" :> "u" @@ "V" :> "v" @@ "W" :> "w" @@ "X" :> "x" @@ "Y" :> "y"
    @@ "Z" :> "z"

\* str.lower() on one character: a letter gives its lower-case form, every
\* other character is kept
LowerChar(c) == IF c \in DOMAIN LowerCaseOf THEN LowerCaseOf[c] ELSE c

\* the lower-case forms of the characters of a name from position i on
RECURSIVE LowerFrom(_, _)
LowerFrom(name, i) ==
    IF i > Len(name) THEN ""
    ELSE LowerChar(SubSeq(name, i, i)) \o LowerFrom(name, i + 1)

\* str.lower() on the dtype names
Lower(dtype) == LowerFrom(dtype, 1)

\* Python values handed over where a Series or a literal is expected
Value(type, text) == [kind |-> "Value", type |-> type, text |-> text]
NoneValue == Value("NoneType", <<>>)

\* the classes a value of a type is an instance of: a bool is an int
TypeBases(type) == IF type = "bool" THEN {"bool", "int"} ELSE {type}

\* isinstance(value, types)
IsInstance(value, types) == TypeBases(value.type) \cap types # {}

\* bach.types.value_to_dtype
value_to_dtype(value) ==
    IF value.type = "int" THEN "int64"
    ELSE IF value.type = "str" THEN "string"
    ELSE "bool"

\* supported_value_types of the Series class of a dtype
supported_value_types(dtype) ==
    IF dtype = "int64" THEN {"int"}
    ELSE IF dtype = "string" THEN {"str"}
    ELSE IF dtype = "bool" THEN {"bool"}
    ELSE {}

\* supported_value_to_expression of the Series class of a dtype
supported_value_to_expression(dtype, value) ==
    IF dtype = "string" THEN ExpressionStringValue("Expression", value.text)
    ELSE ExpressionRaw("Expression", value.text)

\* ------------------------------------------------------------------------
\* Series
\* ------------------------------------------------------------------------

\* Series.__init__; the class of the Series is given by dtype. index is the
\* tuple of the names of the index Series, sorted_ascending is <<>> for None
Series(dtype, engine, base_node, index, name, expression, group_by, sorted_ascending) ==
    [kind |-> "Series", dtype |-> dtype, engine |-> engine, base_node |-> base_node,
     index |-> index, name |-> name, expression |-> expression,
     group_by |-> group_by, sorted_ascending |-> sorted_ascending]

\* value_to_expression that hands every value but None on to
\* supported_value_to_expression
value_to_expression_unchecked(dtype, value) ==
    IF value.type = "NoneType"
    THEN Returned(ExpressionRaw("Expression", <<"N", "U", "L", "L">>))
    ELSE Returned(supported_value_to_expression(dtype, value))

\* Series.value_to_expression
value_to_expression(dtype, value) ==
    IF value.type = "NoneType"
    THEN Returned(ExpressionRaw("Expression", <<"N", "U", "L", "L">>))
    ELSE IF ~IsInstance(value, supported_value_types(dtype))
         THEN Raised("TypeError: value type")
         ELSE Returned(supported_value_to_expression(dtype, value))

\* get_class_instance of the Series class of dtype
get_class_instance(dtype, base, name, expression, group_by) ==
    Series(dtype, base.engine, base.base_node, base.index, name, expression, group_by, <<>>)

\* from_const of the Series class of dtype: the TypeError of
\* value_to_expression is that of from_const
from_const(dtype, base, value, name) ==
    LET made == value_to_expression(dtype, value)
    IN IF made.err # "None" THEN made
       ELSE Returned(get_class_instance(dtype, base, name,
                                        WrapExpression("ConstValueExpression", made.val),
                                        NoGroupBy))

\* an argument left at None is <<>>, an argument given is <<value>>
Given(arg, default) == IF arg = <<>> THEN default ELSE arg[1]

\* copy_override that leaves the index alone
copy_override_keeping_index(self, dtype, engine, base_node, index, name, expression, group_by, sorted_ascending) ==
    Series(IF dtype = <<>> THEN self.dtype ELSE get_series_type_from_dtype(dtype[1]),
           Given(engine, self.engine),
           Given(base_node, self.base_node),
           self.index,
           Given(name, self.name),
           Given(expression, self.expression),
           Given(group_by, self.group_by),
           Given(sorted_ascending, self.sorted_ascending))

\* Series.copy_override
copy_override(self, dtype, engine, base_node, index, name, expression, group_by, sorted_ascending) ==
    Series(IF dtype = <<>> THEN self.dtype ELSE get_series_type_from_dtype(dtype[1]),
           Given(engine, self.engine),
           Given(base_node, self.base_node),
           Given(index, self.index),
           Given(name, self.name),
           Given(expression, self.expression),
           Given(group_by, self.group_by),
           Given(sorted_ascending, self.sorted_ascending))

\* as_independent_subquery keeping the index and the group_by of the series
as_independent_subquery_in_context(series, operation, dtype) ==
    LET select == <<"(", "S", "E", "L", "E", "C", "T", " ", "{", "}", " ",
                    "F", "R", "O", "M", " ", "{", "}", ")">>
        fmt_string == IF operation # <<>> THEN operation \o <<" ">> \o select ELSE select
        expr == Construct("IndependentSubqueryExpression", fmt_string,
                          <<ExpressionColumnReference("Expression", series.name),
                            ExpressionModelReference("Expression",
                                                     MaterializedNode(series))>>)
        expr2 == IF is_single_value(series.expression)
                 THEN WrapExpression("SingleValueExpression", expr.val)
                 ELSE expr.val
    IN IF expr.err # "None" THEN expr
       ELSE Returned(copy_override(series, dtype, <<>>, <<>>, <<>>, <<>>, <<expr2>>, <<>>, <<>>))

\* as_independent_subquery with the single-value tag of the input left out
as_independent_subquery_untagged(series, operation, dtype) ==
    LET select == <<"(", "S", "E", "L", "E", "C", "T", " ", "{", "}", " ",
                    "F", "R", "O", "M", " ", "{", "}", ")">>
        fmt_string == IF operation # <<>> THEN operation \o <<" ">> \o select ELSE select
        expr == Construct("IndependentSubqueryExpression", fmt_string,
                          <<ExpressionColumnReference("Expression", series.name),
                            ExpressionModelReference("Expression",
                                                     MaterializedNode(series))>>)
    IN IF expr.err # "None" THEN expr
       ELSE Returned(copy_override(series, dtype, <<>>, <<>>, <<<<>>>>, <<>>, <<expr.val>>,
                                 <<NoGroupBy>>, <<>>))

\* as_independent_subquery selecting from the base_node of the series, with no
\* unit materialized from it
as_independent_subquery_of_base_node(series, operation, dtype) ==
    LET select == <<"(", "S", "E", "L", "E", "C", "T", " ", "{", "}", " ",
                    "F", "R", "O", "M", " ", "{", "}", ")">>
        fmt_string == IF operation # <<>> THEN operation \o <<" ">> \o select ELSE select
        expr == Construct("IndependentSubqueryExpression", fmt_string,
                          <<ExpressionColumnReference("Expression", series.name),
                            ExpressionModelReference("Expression", series.base_node)>>)
        expr2 == IF is_single_value(series.expression)
                 THEN WrapExpression("SingleValueExpression", expr.val)
                 ELSE expr.val
    IN IF expr.err # "None" THEN expr
       ELSE Returned(copy_override(series, dtype, <<>>, <<>>, <<<<>>>>, <<>>, <<expr2>>,
                                 <<NoGroupBy>>, <<>>))

\* Series.as_independent_subquery; operation is <<>> for None
as_independent_subquery(series, operation, dtype) ==
    LET select == <<"(", "S", "E", "L", "E", "C", "T", " ", "{", "}", " ",
                    "F", "R", "O", "M", " ", "{", "}", ")">>
        fmt_string == IF operation # <<>> THEN operation \o <<" ">> \o select ELSE select
        expr == Construct("IndependentSubqueryExpression", fmt_string,
                          <<ExpressionColumnReference("Expression", series.name),
                            ExpressionModelReference("Expression",
                                                     MaterializedNode(series))>>)
        expr2 == IF is_single_value(series.expression)
                 THEN WrapExpression("SingleValueExpression", expr.val)
                 ELSE expr.val
    IN IF expr.err # "None" THEN expr
       ELSE Returned(copy_override(series, dtype, <<>>, <<>>, <<<<>>>>, <<>>, <<expr2>>,
                                 <<NoGroupBy>>, <<>>))

\* Series.exists
exists(self) ==
    LET s == as_independent_subquery(self, <<"e", "x", "i", "s", "t", "s">>, <<"bool">>)
    IN IF s.err # "None" THEN s
       ELSE Returned(copy_override(
                         s.val, <<>>, <<>>, <<>>, <<>>, <<>>,
                         <<WrapExpression("SingleValueExpression", s.val.expression)>>,
                         <<>>, <<>>))

\* Series.any_value, Series.all_values
any_value(self) == as_independent_subquery(self, <<"a", "n", "y">>, <<>>)
all_values(self) == as_independent_subquery(self, <<"a", "l", "l">>, <<>>)

\* Series.isin
isin(self, other) ==
    LET subquery == as_independent_subquery(other, <<"i", "n">>, <<>>)
    IN IF subquery.err # "None" THEN subquery
       ELSE LET in_expr == Construct("Expression", <<"{", "}", " ", "{", "}">>,
                                     <<self, subquery.val>>)
            IN IF in_expr.err # "None" THEN in_expr
               ELSE Returned(copy_override(self, <<"boolean">>, <<>>, <<>>, <<>>, <<>>,
                                           <<in_expr.val>>, <<>>, <<>>))

\* the outcome of a call that returns its receiver, the same object
ReturnedSelf(self) == [err |-> "None", val |-> self, is_self |-> TRUE]

\* Series.sort_values
sort_values(self, ascending) ==
    IF self.sorted_ascending # <<>> /\ self.sorted_ascending[1] = ascending
    THEN ReturnedSelf(self)
    ELSE Returned(copy_override(self, <<>>, <<>>, <<>>, <<>>, <<>>, <<>>, <<>>,
                                <<<<ascending>>>>))

\* dtype_aliases of the Series class of a dtype: 'boolean' is an alias of 'bool'
dtype_aliases(dtype) == IF dtype = "bool" THEN {"boolean"} ELSE {}

\* supported_db_dtype of the Series class of a dtype
supported_db_dtype(dtype) ==
    IF dtype = "int64" THEN <<"b", "i", "g", "i", "n", "t">>
    ELSE IF dtype = "string" THEN <<"t", "e", "x", "t">>
    ELSE <<"b", "o", "o", "l", "e", "a", "n">>

\* dtype_to_expression of the Series class of dtype: a cast to its db type
dtype_to_expression(dtype, source_dtype, expression) ==
    Construct("Expression",
              <<"c", "a", "s", "t", "(", "{", "}", " ", "a", "s", " ">>
              \o supported_db_dtype(dtype) \o <<")">>,
              <<expression>>)

\* Series.astype with the conversion made whatever the dtype asked for
astype_always_converting(self, dtype) ==
    LET series_type == get_series_type_from_dtype(dtype)
        expression == dtype_to_expression(series_type, self.dtype, self.expression)
    IN IF expression.err # "None" THEN expression
       ELSE Returned(copy_override(self, <<series_type>>, <<>>, <<>>, <<>>, <<>>,
                                   <<expression.val>>, <<>>, <<>>))

\* Series.astype
astype(self, dtype) ==
    IF dtype = self.dtype \/ dtype \in dtype_aliases(self.dtype)
    THEN ReturnedSelf(self)
    ELSE LET series_type == get_series_type_from_dtype(dtype)
             expression == dtype_to_expression(series_type, self.dtype, self.expression)
         IN IF expression.err # "None" THEN expression
            ELSE Returned(copy_override(self, <<series_type>>, <<>>, <<>>, <<>>, <<>>,
                                        <<expression.val>>, <<>>, <<>>))

\* const_to_series
const_to_series(base, value) ==
    IF value.kind = "Series" THEN Returned(value)
    ELSE from_const(value_to_dtype(value), base, value,
                    <<"_", "_", "c", "o", "n", "s", "t", "_", "_">>)

\* _get_supported with the check of the dtype of the rhs left out
get_supported_any_dtype(self, supported_dtypes, other) ==
    LET differs == self.base_node # other.base_node \/ self.group_by # other.group_by
        checked == ~(is_constant(other.expression)
                     \/ is_independent_subquery(other.expression))
    IN IF checked /\ differs /\ ~is_single_value(other.expression)
       THEN Raised("ValueError: rhs has a different base_node or group_by")
       ELSE IF checked /\ differs
            THEN as_independent_subquery(other, <<>>, <<>>)
            ELSE Returned(other)

\* _get_supported with the check of the context of the rhs left out
get_supported_any_context(self, supported_dtypes, other) ==
    IF Lower(other.dtype) \notin supported_dtypes
    THEN Raised("TypeError: dtype not supported")
    ELSE Returned(other)

\* _get_supported that turns every single-valued rhs into a subquery
get_supported_eager(self, supported_dtypes, other) ==
    LET differs == self.base_node # other.base_node \/ self.group_by # other.group_by
        checked == ~(is_constant(other.expression)
                     \/ is_independent_subquery(other.expression))
        other2 == IF is_single_value(other.expression)
                  THEN as_independent_subquery(other, <<>>, <<>>)
                  ELSE Returned(other)
    IN IF checked /\ differs /\ ~is_single_value(other.expression)
       THEN Raised("ValueError: rhs has a different base_node or group_by")
       ELSE IF other2.err # "None" THEN other2
            ELSE IF Lower(other2.val.dtype) \notin supported_dtypes
                 THEN Raised("TypeError: dtype not supported")
                 ELSE other2

\* Series._get_supported
get_supported(self, supported_dtypes, other) ==
    LET differs == self.base_node # other.base_node \/ self.group_by # other.group_by
        checked == ~(is_constant(other.expression)
                     \/ is_independent_subquery(other.expression))
        other2 == IF checked /\ differs /\ is_single_value(other.expression)
                  THEN as_independent_subquery(other, <<>>, <<>>)
                  ELSE Returned(other)
    IN IF checked /\ differs /\ ~is_single_value(other.expression)
       THEN Raised("ValueError: rhs has a different base_node or group_by")
       ELSE IF other2.err # "None" THEN other2
            ELSE IF Lower(other2.val.dtype) \notin supported_dtypes
                 THEN Raised("TypeError: dtype not supported")
                 ELSE other2

\* the dtype argument of _binary_operation: None, a dtype, or a dict from the
\* dtype of the rhs to a dtype
DtypeNone == [kind |-> "None", dtype |-> "", map |-> <<>>]
DtypeStr(dtype) == [kind |-> "str", dtype |-> dtype, map |-> <<>>]
DtypeDict(map) == [kind |-> "dict", dtype |-> "", map |-> map]

\* _binary_operation that leaves the dtype of the result that of self
binary_operation_keeping_dtype(self, other, fmt_str, other_dtypes, dtype) ==
    IF other_dtypes = {} THEN Raised("NotImplementedError: binary operation")
    ELSE LET const == const_to_series(self, other)
             supported == IF const.err # "None" THEN const
                          ELSE get_supported(self, other_dtypes, const.val)
         IN IF supported.err # "None" THEN supported
            ELSE LET made == Construct("NonAtomicExpression", fmt_str,
                                       <<self, supported.val>>)
                 IN IF made.err # "None" THEN made
                    ELSE Returned(copy_override(self, <<>>, <<>>, <<>>, <<>>, <<>>,
                                                <<made.val>>, <<>>, <<>>))

\* Series._binary_operation
binary_operation(self, other, fmt_str, other_dtypes, dtype) ==
    IF other_dtypes = {} THEN Raised("NotImplementedError: binary operation")
    ELSE LET const == const_to_series(self, other)
             supported == IF const.err # "None" THEN const
                          ELSE get_supported(self, other_dtypes, const.val)
         IN IF supported.err # "None" THEN supported
            ELSE LET other2 == supported.val
                     made == Construct("NonAtomicExpression", fmt_str, <<self, other2>>)
                     dtype2 == IF dtype.kind = "dict"
                               THEN (IF other2.dtype \in DOMAIN dtype.map
                                     THEN <<dtype.map[other2.dtype]>> ELSE <<>>)
                               ELSE IF dtype.kind = "str" THEN <<dtype.dtype>> ELSE <<>>
                 IN IF made.err # "None" THEN made
                    ELSE Returned(copy_override(self, dtype2, <<>>, <<>>, <<>>, <<>>,
                                                <<made.val>>, <<>>, <<>>))

\* Series._arithmetic_operation
arithmetic_operation(self, other, fmt_str, other_dtypes, dtype) ==
    IF other_dtypes = {} THEN Raised("TypeError: arithmetic operation")
    ELSE binary_operation(self, other, fmt_str, other_dtypes, dtype)

\* Series._comparator_operation
comparator_operation(self, other, comparator, other_dtypes) ==
    IF other_dtypes = {} THEN Raised("TypeError: comparator")
    ELSE binary_operation(self, other, <<"{", "}", " ">> \o comparator \o <<" ", "{", "}">>,
                          other_dtypes, DtypeStr("bool"))

\* str(n) for an integer n
Digit(n) == <<"0", "1", "2", "3", "4", "5", "6", "7", "8", "9">>[n + 1]
RECURSIVE IntText(_)
IntText(n) ==
    IF n < 0 THEN <<"-">> \o IntText(0 - n)
    ELSE IF n < 10 THEN <<Digit(n)>> ELSE IntText(n \div 10) \o <<Digit(n % 10)>>

\* the expression argument of _derived_agg_func given as a str
FunctionName(name) == [kind |-> "str", name |-> name]

\* a DataFrame handed over as partition or window: only its group_by is read
DataFrame(group_by) == [kind |-> "DataFrame", group_by |-> group_by]

\* Series._check_unwrap_groupby; isin and notin are sets of partition kinds
check_unwrap_groupby(wrapped, isin_kinds, notin_kinds) ==
    LET group_by == IF wrapped.kind = "DataFrame" THEN wrapped.group_by ELSE wrapped
    IN IF group_by.kind \notin isin_kinds THEN Raised("ValueError: group_by not in isin")
       ELSE IF group_by.kind \in notin_kinds
            THEN Raised("ValueError: group_by not supported")
       ELSE Returned(group_by)

\* the kinds isinstance(g, GroupBy) and isinstance(g, Window) accept
GroupByKinds == {"GroupBy", "Window"}
WindowKinds == {"Window"}

CaseWhenFmt(min_count) ==
    <<"C", "A", "S", "E", " ", "W", "H", "E", "N", " ", "{", "}", " ", ">", "=", " ">>
    \o IntText(min_count) \o
    <<" ", "T", "H", "E", "N", " ", "{", "}", " ", "E", "L", "S", "E", " ", "N", "U",
      "L", "L", " ", "E", "N", "D">>

RECURSIVE derived_agg_func(_, _, _, _, _, _)
\* _derived_agg_func that binds the result to the index of a Window and to
\* the Window, as it does for a GroupBy
derived_agg_func_rebinding(self, partition, expression, dtype, skipna, min_count) ==
    IF ~skipna THEN Raised("NotImplementedError: skipna")
    ELSE IF has_windowed_aggregate_function(self.expression)
    THEN Raised("ValueError: already windowed")
    ELSE IF has_aggregate_function(self.expression)
    THEN Raised("ValueError: already aggregated")
    ELSE
    LET built ==
            IF expression.kind = "str"
            THEN Construct("AggregateFunctionExpression",
                           expression.name \o <<"(", "{", "}", ")">>, <<self>>)
            ELSE Returned(expression)
    IN IF built.err # "None" THEN built
    ELSE
    LET expression1 == built.val
        unwrapped ==
            IF partition.kind = "None"
            THEN Returned(IF IsGroupBy(self.group_by) THEN self.group_by ELSE GroupBy(<<>>))
            ELSE check_unwrap_groupby(partition, GroupByKinds, {})
    IN IF unwrapped.err # "None" THEN unwrapped
       ELSE
       LET partition1 == unwrapped.val
           guarded ==
               IF min_count # <<>> /\ min_count[1] > 0
               THEN IF IsWindow(partition1)
                    THEN (IF partition1.min_values # min_count[1]
                          THEN Raised("NotImplementedError: min_count conflicting")
                          ELSE Returned(expression1))
                    ELSE LET counted == derived_agg_func(self, partition1,
                                                         FunctionName(<<"c", "o", "u", "n", "t">>),
                                                         <<"int64">>, skipna, <<>>)
                         IN IF counted.err # "None" THEN counted
                            ELSE Construct("Expression", CaseWhenFmt(min_count[1]),
                                           <<counted.val, expression1>>)
               ELSE Returned(expression1)
           derived_dtype == IF dtype = <<>> THEN <<self.dtype>> ELSE dtype
       IN IF guarded.err # "None" THEN guarded
          ELSE IF ~IsWindow(partition1)
          THEN IF IsGroupBy(self.group_by) /\ self.group_by # partition1
               THEN Raised("ValueError: passed partition does not match series partition")
               ELSE IF ~has_aggregate_function(guarded.val)
               THEN Raised("ValueError: should contain an aggregation function")
               ELSE Returned(copy_override(
                        self, derived_dtype, <<>>, <<>>, <<partition1.index>>, <<>>,
                        <<IF partition1.index = <<>>
                          THEN WrapExpression("SingleValueExpression", guarded.val)
                          ELSE guarded.val>>,
                        <<partition1>>, <<>>))
          ELSE Returned(copy_override(
                   self, derived_dtype, <<>>, <<>>, <<partition1.index>>, <<>>,
                   <<get_window_expression(partition1, guarded.val)>>, <<partition1>>, <<>>))

\* _derived_agg_func that does not ask the expression for an aggregate
\* function
derived_agg_func_unchecked(self, partition, expression, dtype, skipna, min_count) ==
    IF ~skipna THEN Raised("NotImplementedError: skipna")
    ELSE IF has_windowed_aggregate_function(self.expression)
    THEN Raised("ValueError: already windowed")
    ELSE IF has_aggregate_function(self.expression)
    THEN Raised("ValueError: already aggregated")
    ELSE
    LET built ==
            IF expression.kind = "str"
            THEN Construct("AggregateFunctionExpression",
                           expression.name \o <<"(", "{", "}", ")">>, <<self>>)
            ELSE Returned(expression)
    IN IF built.err # "None" THEN built
    ELSE
    LET expression1 == built.val
        unwrapped ==
            IF partition.kind = "None"
            THEN Returned(IF IsGroupBy(self.group_by) THEN self.group_by ELSE GroupBy(<<>>))
            ELSE check_unwrap_groupby(partition, GroupByKinds, {})
    IN IF unwrapped.err # "None" THEN unwrapped
       ELSE
       LET partition1 == unwrapped.val
           guarded ==
               IF min_count # <<>> /\ min_count[1] > 0
               THEN IF IsWindow(partition1)
                    THEN (IF partition1.min_values # min_count[1]
                          THEN Raised("NotImplementedError: min_count conflicting")
                          ELSE Returned(expression1))
                    ELSE LET counted == derived_agg_func(self, partition1,
                                                         FunctionName(<<"c", "o", "u", "n", "t">>),
                                                         <<"int64">>, skipna, <<>>)
                         IN IF counted.err # "None" THEN counted
                            ELSE Construct("Expression", CaseWhenFmt(min_count[1]),
                                           <<counted.val, expression1>>)
               ELSE Returned(expression1)
           derived_dtype == IF dtype = <<>> THEN <<self.dtype>> ELSE dtype
       IN IF guarded.err # "None" THEN guarded
          ELSE IF ~IsWindow(partition1)
          THEN IF IsGroupBy(self.group_by) /\ self.group_by # partition1
               THEN Raised("ValueError: passed partition does not match series partition")
               ELSE Returned(copy_override(
                        self, derived_dtype, <<>>, <<>>, <<partition1.index>>, <<>>,
                        <<IF partition1.index = <<>>
                          THEN WrapExpression("SingleValueExpression", guarded.val)
                          ELSE guarded.val>>,
                        <<partition1>>, <<>>))
          ELSE Returned(copy_override(
                   self, derived_dtype, <<>>, <<>>, <<>>, <<>>,
                   <<get_window_expression(partition1, guarded.val)>>, <<>>, <<>>))

\* _derived_agg_func that lets the partition given replace the group_by of
\* the Series
derived_agg_func_replacing(self, partition, expression, dtype, skipna, min_count) ==
    IF ~skipna THEN Raised("NotImplementedError: skipna")
    ELSE IF has_windowed_aggregate_function(self.expression)
    THEN Raised("ValueError: already windowed")
    ELSE IF has_aggregate_function(self.expression)
    THEN Raised("ValueError: already aggregated")
    ELSE
    LET built ==
            IF expression.kind = "str"
            THEN Construct("AggregateFunctionExpression",
                           expression.name \o <<"(", "{", "}", ")">>, <<self>>)
            ELSE Returned(expression)
    IN IF built.err # "None" THEN built
    ELSE
    LET expression1 == built.val
        unwrapped ==
            IF partition.kind = "None"
            THEN Returned(IF IsGroupBy(self.group_by) THEN self.group_by ELSE GroupBy(<<>>))
            ELSE check_unwrap_groupby(partition, GroupByKinds, {})
    IN IF unwrapped.err # "None" THEN unwrapped
       ELSE
       LET partition1 == unwrapped.val
           guarded ==
               IF min_count # <<>> /\ min_count[1] > 0
               THEN IF IsWindow(partition1)
                    THEN (IF partition1.min_values # min_count[1]
                          THEN Raised("NotImplementedError: min_count conflicting")
                          ELSE Returned(expression1))
                    ELSE LET counted == derived_agg_func(self, partition1,
                                                         FunctionName(<<"c", "o", "u", "n", "t">>),
                                                         <<"int64">>, skipna, <<>>)
                         IN IF counted.err # "None" THEN counted
                            ELSE Construct("Expression", CaseWhenFmt(min_count[1]),
                                           <<counted.val, expression1>>)
               ELSE Returned(expression1)
           derived_dtype == IF dtype = <<>> THEN <<self.dtype>> ELSE dtype
       IN IF guarded.err # "None" THEN guarded
          ELSE IF ~IsWindow(partition1)
          THEN IF ~has_aggregate_function(guarded.val)
               THEN Raised("ValueError: should contain an aggregation function")
               ELSE Returned(copy_override(
                        self, derived_dtype, <<>>, <<>>, <<partition1.index>>, <<>>,
                        <<IF partition1.index = <<>>
                          THEN WrapExpression("SingleValueExpression", guarded.val)
                          ELSE guarded.val>>,
                        <<partition1>>, <<>>))
          ELSE Returned(copy_override(
                   self, derived_dtype, <<>>, <<>>, <<>>, <<>>,
                   <<get_window_expression(partition1, guarded.val)>>, <<>>, <<>>))

\* _derived_agg_func that does not compare min_count with the min_values of
\* a Window
derived_agg_func_any_min_values(self, partition, expression, dtype, skipna, min_count) ==
    IF ~skipna THEN Raised("NotImplementedError: skipna")
    ELSE IF has_windowed_aggregate_function(self.expression)
    THEN Raised("ValueError: already windowed")
    ELSE IF has_aggregate_function(self.expression)
    THEN Raised("ValueError: already aggregated")
    ELSE
    LET built ==
            IF expression.kind = "str"
            THEN Construct("AggregateFunctionExpression",
                           expression.name \o <<"(", "{", "}", ")">>, <<self>>)
            ELSE Returned(expression)
    IN IF built.err # "None" THEN built
    ELSE
    LET expression1 == built.val
        unwrapped ==
            IF partition.kind = "None"
            THEN Returned(IF IsGroupBy(self.group_by) THEN self.group_by ELSE GroupBy(<<>>))
            ELSE check_unwrap_groupby(partition, GroupByKinds, {})
    IN IF unwrapped.err # "None" THEN unwrapped
       ELSE
       LET partition1 == unwrapped.val
           guarded ==
               IF min_count # <<>> /\ min_count[1] > 0
               THEN IF IsWindow(partition1)
                    THEN Returned(expression1)
                    ELSE LET counted == derived_agg_func(self, partition1,
                                                         FunctionName(<<"c", "o", "u", "n", "t">>),
                                                         <<"int64">>, skipna, <<>>)
                         IN IF counted.err # "None" THEN counted
                            ELSE Construct("Expression", CaseWhenFmt(min_count[1]),
                                           <<counted.val, expression1>>)
               ELSE Returned(expression1)
           derived_dtype == IF dtype = <<>> THEN <<self.dtype>> ELSE dtype
       IN IF guarded.err # "None" THEN guarded
          ELSE IF ~IsWindow(partition1)
          THEN IF IsGroupBy(self.group_by) /\ self.group_by # partition1
               THEN Raised("ValueError: passed partition does not match series partition")
               ELSE IF ~has_aggregate_function(guarded.val)
               THEN Raised("ValueError: should contain an aggregation function")
               ELSE Returned(copy_override(
                        self, derived_dtype, <<>>, <<>>, <<partition1.index>>, <<>>,
                        <<IF partition1.index = <<>>
                          THEN WrapExpression("SingleValueExpression", guarded.val)
                          ELSE guarded.val>>,
                        <<partition1>>, <<>>))
          ELSE Returned(copy_override(
                   self, derived_dtype, <<>>, <<>>, <<>>, <<>>,
                   <<get_window_expression(partition1, guarded.val)>>, <<>>, <<>>))

\* Series._derived_agg_func; dtype and min_count are <<>> for None
derived_agg_func(self, partition, expression, dtype, skipna, min_count) ==
    IF ~skipna THEN Raised("NotImplementedError: skipna")
    ELSE IF has_windowed_aggregate_function(self.expression)
    THEN Raised("ValueError: already windowed")
    ELSE IF has_aggregate_function(self.expression)
    THEN Raised("ValueError: already aggregated")
    ELSE
    LET built ==
            IF expression.kind = "str"
            THEN Construct("AggregateFunctionExpression",
                           expression.name \o <<"(", "{", "}", ")">>, <<self>>)
            ELSE Returned(expression)
    IN IF built.err # "None" THEN built
    ELSE
    LET expression1 == built.val
        unwrapped ==
            IF partition.kind = "None"
            THEN Returned(IF IsGroupBy(self.group_by) THEN self.group_by ELSE GroupBy(<<>>))
            ELSE check_unwrap_groupby(partition, GroupByKinds, {})
    IN IF unwrapped.err # "None" THEN unwrapped
       ELSE
       LET partition1 == unwrapped.val
           guarded ==
               IF min_count # <<>> /\ min_count[1] > 0
               THEN IF IsWindow(partition1)
                    THEN (IF partition1.min_values # min_count[1]
                          THEN Raised("NotImplementedError: min_count conflicting")
                          ELSE Returned(expression1))
                    ELSE LET counted == derived_agg_func(self, partition1,
                                                         FunctionName(<<"c", "o", "u", "n", "t">>),
                                                         <<"int64">>, skipna, <<>>)
                         IN IF counted.err # "None" THEN counted
                            ELSE Construct("Expression", CaseWhenFmt(min_count[1]),
                                           <<counted.val, expression1>>)
               ELSE Returned(expression1)
           derived_dtype == IF dtype = <<>> THEN <<self.dtype>> ELSE dtype
       IN IF guarded.err # "None" THEN guarded
          ELSE IF ~IsWindow(partition1)
          THEN IF IsGroupBy(self.group_by) /\ self.group_by # partition1
               THEN Raised("ValueError: passed partition does not match series partition")
               ELSE IF ~has_aggregate_function(guarded.val)
               THEN Raised("ValueError: should contain an aggregation function")
               ELSE Returned(copy_override(
                        self, derived_dtype, <<>>, <<>>, <<partition1.index>>, <<>>,
                        <<IF partition1.index = <<>>
                          THEN WrapExpression("SingleValueExpression", guarded.val)
                          ELSE guarded.val>>,
                        <<partition1>>, <<>>))
          ELSE Returned(copy_override(
                   self, derived_dtype, <<>>, <<>>, <<>>, <<>>,
                   <<get_window_expression(partition1, guarded.val)>>, <<>>, <<>>))

\* Series.count, max, median, min, mode, nunique
count(self, partition, skipna) ==
    derived_agg_func(self, partition, FunctionName(<<"c", "o", "u", "n", "t">>),
                     <<"int64">>, skipna, <<>>)

max(self, partition, skipna) ==
    derived_agg_func(self, partition, FunctionName(<<"m", "a", "x">>), <<>>, skipna, <<>>)

median(self, partition, skipna) ==
    LET made == Construct("AggregateFunctionExpression", <<"p", "e", "r", "c", "e", "n", "t",
            "i", "l", "e", "_", "d", "i", "s", "c", "(", "0", ".", "5", ")", " ", "W", "I",
            "T", "H", "I", "N", " ", "G", "R", "O", "U", "P", " ", "(", "O", "R", "D", "E",
            "R", " ", "B", "Y", " ", "{", "}", ")">>, <<self>>)
    IN IF made.err # "None" THEN made
       ELSE derived_agg_func(self, partition, made.val, <<>>, skipna, <<>>)

min(self, partition, skipna) ==
    derived_agg_func(self, partition, FunctionName(<<"m", "i", "n">>), <<>>, skipna, <<>>)

mode(self, partition, skipna) ==
    LET made == Construct("AggregateFunctionExpression", <<"m", "o", "d", "e", "(", ")", " ",
            "w", "i", "t", "h", "i", "n", " ", "g", "r", "o", "u", "p", " ", "(", "o", "r",
            "d", "e", "r", " ", "b", "y", " ", "{", "}", ")">>, <<self>>)
    IN IF made.err # "None" THEN made
       ELSE derived_agg_func(self, partition, made.val, <<>>, skipna, <<>>)

nunique(self, partition, skipna) ==
    LET unwrapped == IF partition.kind # "None"
                     THEN check_unwrap_groupby(partition, GroupByKinds, WindowKinds)
                     ELSE Returned(partition)
    IN IF unwrapped.err # "None" THEN unwrapped
       ELSE LET made == Construct("AggregateFunctionExpression", <<"c", "o", "u", "n", "t", "(",
                    "d", "i", "s", "t", "i", "n", "c", "t", " ", "{", "}", ")">>, <<self>>)
            IN IF made.err # "None" THEN made
               ELSE derived_agg_func(self, unwrapped.val, made.val, <<"int64">>, skipna,
                    <<>>)

\* Series._check_window
check_window(window) == check_unwrap_groupby(window, WindowKinds, {})

\* the window functions that take the window alone: the name of the SQL
\* function and the dtype of the result
\* (window_row_number, window_rank, window_dense_rank, window_percent_rank,
\* window_cume_dist)
window_ranking(self, window, function, dtype) ==
    LET checked == check_window(window)
    IN IF checked.err # "None" THEN checked
       ELSE LET made == Construct("Expression", function \o <<"(", ")">>, <<>>)
            IN IF made.err # "None" THEN made
               ELSE derived_agg_func(self, checked.val, made.val, <<dtype>>, TRUE, <<>>)

\* Series.window_ntile
window_ntile(self, window, num_buckets) ==
    LET checked == check_window(window)
    IN IF checked.err # "None" THEN checked
       ELSE LET made == Construct("Expression", <<"n", "t", "i", "l", "e", "(">> \o
                    IntText(num_buckets) \o <<")">>, <<>>)
            IN IF made.err # "None" THEN made
               ELSE derived_agg_func(self, checked.val, made.val, <<"int64">>, TRUE, <<>>)

\* window_lag and window_lead with the offset and the default in each other's
\* place
window_lag_lead_swapped(self, window, function, offset, default) ==
    LET checked == check_window(window)
        default_expr == value_to_expression(self.dtype, default)
    IN IF checked.err # "None" THEN checked
       ELSE IF default_expr.err # "None" THEN default_expr
       ELSE LET made == Construct("Expression", function \o <<"(", "{", "}", ",", " ", "{", "}",
                    ",", " ">> \o IntText(offset) \o <<")">>, <<self, default_expr.val>>)
            IN IF made.err # "None" THEN made
               ELSE derived_agg_func(self, checked.val, made.val, <<self.dtype>>, TRUE,
                    <<>>)

\* Series.window_lag and Series.window_lead (function is 'lag' or 'lead')
window_lag_lead(self, window, function, offset, default) ==
    LET checked == check_window(window)
        default_expr == value_to_expression(self.dtype, default)
    IN IF checked.err # "None" THEN checked
       ELSE IF default_expr.err # "None" THEN default_expr
       ELSE LET made == Construct("Expression", function \o <<"(", "{", "}", ",", " ">> \o
                    IntText(offset) \o <<",", " ", "{", "}", ")">>, <<self,
                    default_expr.val>>)
            IN IF made.err # "None" THEN made
               ELSE derived_agg_func(self, checked.val, made.val, <<self.dtype>>, TRUE,
                    <<>>)

\* Series.window_first_value and Series.window_last_value
window_value(self, window, function) ==
    LET checked == check_window(window)
    IN IF checked.err # "None" THEN checked
       ELSE LET made == Construct("Expression", function \o <<"(", "{", "}", ")">>, <<self>>)
            IN IF made.err # "None" THEN made
               ELSE derived_agg_func(self, checked.val, made.val, <<self.dtype>>, TRUE,
                    <<>>)

\* Series.window_nth_value
window_nth_value(self, window, n) ==
    LET checked == check_window(window)
    IN IF checked.err # "None" THEN checked
       ELSE LET made == Construct("Expression", <<"n", "t", "h", "_", "v", "a", "l", "u", "e",
                    "(", "{", "}", ",", " ">> \o IntText(n) \o <<")">>, <<self>>)
            IN IF made.err # "None" THEN made
               ELSE derived_agg_func(self, checked.val, made.val, <<self.dtype>>, TRUE,
                    <<>>)

\* ------------------------------------------------------------------------
\* Expression operations as steps: ex is the Expression at hand, elast the
\* last call made, with its arguments and its outcome
\* ------------------------------------------------------------------------

Call(op, cls, fmt, args, table, out) ==
    [op |-> op, cls |-> cls, fmt |-> fmt, args |-> args, table |-> table, out |-> out]

NoCall == Call("none", "Expression", <<>>, <<>>, <<>>, Raised("NoCall"))

\* operands at hand beside ex
Seeds == {ExpressionColumnReference("Expression", <<"x">>)}

\* an operand handed to construct as a Series instead of as an Expression
AsSeries(e) ==
    Series("int64", "engine", BaseNode(<<"h", "1">>), <<>>, <<"x">>, e, NoGroupBy, <<>>)

\* a factory call gives a new Expression to go on with
Start(op, cls, arg, val) ==
    /\ elast' = Call(op, cls, <<>>, <<arg>>, <<>>, Returned(val))
    /\ ex' = val
    /\ esteps' = 0
    /\ UNCHANGED svars

\* a call on ex: the Expression it returns is the one to go on with, unless
\* the call raised or MaxSteps calls were chained already
Step(op, cls, fmt, args, table, out) ==
    /\ elast' = Call(op, cls, fmt, args, table, out)
    /\ IF out.err = "None" /\ esteps < MaxSteps
       THEN ex' = out.val /\ esteps' = esteps + 1
       ELSE UNCHANGED <<ex, esteps>>
    /\ UNCHANGED svars

EInit ==
    /\ ex \in Seeds
    /\ esteps = 0
    /\ elast = NoCall

MakeRaw ==
    \E cls \in FactoryClasses, raw \in RawTexts :
        /\ cls = "Expression" \/ raw = <<"1">>
        /\ Start("raw", cls, raw, ExpressionRaw(cls, raw))

MakeAggFunctionRaw ==
    \E cls \in {"Expression", "NonAtomicExpression"}, raw \in {<<"n", "(", ")">>} :
        Start("agg_function_raw", cls, raw, ExpressionAggFunctionRaw(cls, raw))

MakeStringValue ==
    \E value \in StringValues :
        Start("string_value", "Expression", value,
              ExpressionStringValue("Expression", value))

MakeColumnReference ==
    \E cls \in {"Expression", "ConstValueExpression"}, name \in ColumnNames :
        /\ cls = "Expression" \/ name = <<"x">>
        /\ Start("column_reference", cls, name, ExpressionColumnReference(cls, name))

MakeModelReference ==
    \E model \in BaseNodes :
        Start("model_reference", "Expression", model,
              ExpressionModelReference("Expression", model))

\* cls() and cls(ex)
MakeEmpty ==
    Start("empty", "Expression", <<>>, NewExpression("Expression", <<>>))

DoWrap ==
    \E cls \in FactoryClasses :
        Step("wrap", cls, <<>>, <<ex>>, <<>>, Returned(WrapExpression(cls, ex)))

\* the operand lists tried: none, ex alone (as an Expression and as a Series),
\* ex twice, and ex with a seed on either side
ArgLists ==
    {<<>>, <<ex>>, <<AsSeries(ex)>>, <<ex, ex>>}
    \cup {<<ex, s>> : s \in Seeds} \cup {<<s, ex>> : s \in Seeds}

DoConstruct ==
    \E cls \in ConstructClasses, fmt \in Formats, args \in ArgLists :
        /\ cls = "Expression" \/ fmt = PlusFmt
        /\ Step("construct", cls, fmt, args, <<>>, Construct(cls, fmt, args))

\* the lists an Expression is made from: a token, ex and a seed
DataLists == {<<RawToken(<<"-">>), ex, sd>> : sd \in Seeds}

\* cls(list); ex stays the Expression to go on with
DoList ==
    \E cls \in {"Expression", "SingleValueExpression"}, data \in DataLists :
        /\ elast' = Call("list", cls, <<>>, data, <<>>, Returned(NewExpression(cls, data)))
        /\ UNCHANGED <<ex, esteps>>
        /\ UNCHANGED svars

DoResolve ==
    \E table \in TableNames :
        Step("resolve_column_references", ex.kind, <<>>, <<ex>>, table,
             Returned(resolve_column_references(ex, table)))

\* ------------------------------------------------------------------------
\* Properties of the Expression operations
\* ------------------------------------------------------------------------

ConstructReturned == elast.op = "construct" /\ elast.out.err = "None"

\* the Expression the k-th operand of the last call stands for
ArgExpr(k) == ArgExpression(elast.args[k])

IsPlainColumnReference(e) ==
    /\ e.kind = "Expression"
    /\ Len(e.data) = 1
    /\ e.data[1].kind = "ColumnReferenceToken"

IsRawLiteral(e) ==
    /\ Len(e.data) = 1
    /\ e.data[1].kind = "RawToken"

RECURSIVE Leaves(_)
RECURSIVE LeavesOfData(_)
\* the tokens of an Expression in textual order, at every depth
LeavesOfData(data) ==
    IF data = <<>> THEN <<>>
    ELSE (IF IsExpression(Head(data)) THEN Leaves(Head(data)) ELSE <<Head(data)>>)
         \o LeavesOfData(Tail(data))
Leaves(e) == LeavesOfData(e.data)

RECURSIVE MarkerCount(_)
\* the number of '{}' markers met reading fmt from left to right
MarkerCount(fmt) ==
    IF Len(fmt) < 2 THEN 0
    ELSE IF fmt[1] = "{" /\ fmt[2] = "}"
         THEN 1 + MarkerCount(SubSeq(fmt, 3, Len(fmt)))
         ELSE MarkerCount(Tail(fmt))

PieceToken(piece) == IF piece = <<>> THEN <<>> ELSE <<RawToken(piece)>>

OperandLeaves(arg) ==
    LET a == ArgExpression(arg)
    IN IF a.kind = "NonAtomicExpression"
       THEN <<RawToken(<<"(">>)>> \o Leaves(a) \o <<RawToken(<<")">>)>>
       ELSE Leaves(a)

RECURSIVE TemplateLeaves(_, _, _)
\* reading fmt from left to right: the text read so far becomes a Raw token
\* when a marker or the end is met, and a marker gives the next operand
TemplateLeaves(rest, piece, args) ==
    IF rest = <<>> THEN PieceToken(piece)
    ELSE IF Len(rest) >= 2 /\ rest[1] = "{" /\ rest[2] = "}"
         THEN PieceToken(piece) \o OperandLeaves(Head(args))
              \o TemplateLeaves(SubSeq(rest, 3, Len(rest)), <<>>, Tail(args))
         ELSE TemplateLeaves(Tail(rest), Append(piece, Head(rest)), args)

OperandSql(arg) ==
    LET a == ArgExpression(arg)
    IN IF a.kind = "NonAtomicExpression"
       THEN <<"(">> \o to_sql(a, <<>>).val \o <<")">>
       ELSE to_sql(a, <<>>).val

RECURSIVE TemplateSql(_, _)
\* the text of fmt with every marker replaced by the text of the next operand
TemplateSql(rest, args) ==
    IF rest = <<>> THEN <<>>
    ELSE IF Len(rest) >= 2 /\ rest[1] = "{" /\ rest[2] = "}"
         THEN OperandSql(Head(args)) \o TemplateSql(SubSeq(rest, 3, Len(rest)), Tail(args))
         ELSE escape_format_string(<<Head(rest)>>) \o TemplateSql(Tail(rest), args)

\* C2: is_constant is false for Expression.construct(fmt, c, x) where c is a
\* Const raw literal and x a plain column reference, and it is true for a raw
\* literal wrapped as Const.
C2_ConstantClaim ==
    /\ (/\ ConstructReturned
        /\ Len(elast.args) = 2
        /\ ArgExpr(1).kind = "ConstValueExpression" /\ IsRawLiteral(ArgExpr(1))
        /\ IsPlainColumnReference(ArgExpr(2)))
       => ~is_constant(elast.out.val)
    /\ (/\ elast.op \in {"raw", "wrap"}
        /\ elast.cls = "ConstValueExpression"
        /\ IsRawLiteral(elast.out.val))
       => is_constant(elast.out.val)

\* C3: Expression.construct('{} + {}', col, s) with col a plain column
\* reference and s a SingleValue expression is not single-valued, and an
\* empty or token-only plain Expression is not single-valued.
C3_SingleValueClaim ==
    /\ (/\ ConstructReturned
        /\ elast.fmt = PlusFmt
        /\ IsPlainColumnReference(ArgExpr(1))
        /\ ArgExpr(2).kind = "SingleValueExpression")
       => ~is_single_value(elast.out.val)
    /\ (/\ elast.out.err = "None"
        /\ elast.out.val.kind = "Expression"
        /\ \A i \in DOMAIN elast.out.val.data : ~IsExpression(elast.out.val.data[i]))
       => ~is_single_value(elast.out.val)

\* C8: construct raises ValueError exactly when the number of '{}' markers of
\* fmt differs from the number of operands; otherwise the tokens of the
\* Expression it returns are, in textual order, the non-empty pieces of fmt as
\* Raw tokens and, at each marker, the tokens of the next operand (within its
\* parentheses when it is NonAtomic).
C8_ConstructCount ==
    elast.op = "construct" =>
        IF MarkerCount(elast.fmt) # Len(elast.args)
        THEN elast.out.err = "ValueError"
        ELSE /\ elast.out.err = "None"
             /\ elast.out.val.kind = elast.cls
             /\ Leaves(elast.out.val) = TemplateLeaves(elast.fmt, <<>>, elast.args)

C8_Witness ==
    /\ ConstructReturned
    /\ elast.fmt = PairFmt
    /\ Len(elast.args) = 2
    /\ Len(Leaves(elast.out.val)) >= 3

\* C9: for Expressions a and b not tagged NonAtomic, of any nesting,
\* construct('{} + {}', a, b).to_sql() = a.to_sql() + ' + ' + b.to_sql().
C9_PlusSql ==
    (/\ ConstructReturned
     /\ elast.fmt = PlusFmt
     /\ ~IsNonAtomic(ArgExpr(1)) /\ ~IsNonAtomic(ArgExpr(2)))
    => to_sql(elast.out.val, <<>>).val =
         to_sql(ArgExpr(1), <<>>).val \o <<" ", "+", " ">> \o to_sql(ArgExpr(2), <<>>).val

C9_Witness ==
    /\ ConstructReturned
    /\ elast.fmt = PlusFmt
    /\ ~IsNonAtomic(ArgExpr(1)) /\ ~IsNonAtomic(ArgExpr(2))
    /\ \E i \in DOMAIN ArgExpr(1).data : IsExpression(ArgExpr(1).data[i])
    /\ Len(to_sql(elast.out.val, <<>>).val) > 6

\* C10: construct puts '(' and ')' around an operand exactly when the
\* operand's expression is tagged NonAtomic, whether the operand is given as
\* an Expression or as a Series: the text of the result is the text of fmt
\* with each marker replaced by the operand's text, in parentheses iff the
\* operand is NonAtomic.
C10_Parentheses ==
    ConstructReturned =>
        to_sql(elast.out.val, <<>>).val = TemplateSql(elast.fmt, elast.args)

\* the NonAtomic 'x + x', handed over as a Series, in '{} * c'
C10_Witness ==
    /\ ConstructReturned
    /\ elast.fmt = TimesCFmt
    /\ ~IsExpression(elast.args[1])
    /\ IsNonAtomic(ArgExpr(1))
    /\ to_sql(elast.out.val, <<>>).val =
         <<"(", "\"", "x", "\"", " ", "+", " ", "\"", "x", "\"", ")", " ", "*", " ", "c">>

HasToken(e, kind) == \E i \in DOMAIN Leaves(e) : Leaves(e)[i].kind = kind

ResolveReturned == elast.op = "resolve_column_references" /\ elast.out.err = "None"

\* C11: the Expression resolve_column_references returns holds no
\* ColumnReference token at any depth, and resolving it again, with any
\* table name, gives an Expression equal to it.
C11_ResolveIdempotent ==
    ResolveReturned
    => /\ ~HasToken(elast.out.val, "ColumnReferenceToken")
       /\ \A table \in TableNames :
              resolve_column_references(elast.out.val, table) = elast.out.val

\* a column reference within a nested Expression was resolved with a table name
C11_Witness ==
    /\ ResolveReturned
    /\ elast.table = <<"t">>
    /\ \E i \in DOMAIN elast.args[1].data :
           /\ IsExpression(elast.args[1].data[i])
           /\ HasToken(elast.args[1].data[i], "ColumnReferenceToken")
    /\ elast.out.val # elast.args[1]

\* C12: has_aggregate_function is true for agg_function_raw(x), is kept by
\* construct, resolve_column_references and re-wrapping (true of the result
\* exactly when it is true of an operand), and is true exactly of the
\* Expressions that hold an AggFunctionRaw token at some depth.
C12_HasAggregateFunction ==
    /\ has_aggregate_function(ex) = HasToken(ex, "AggFunctionRawToken")
    /\ elast.op = "agg_function_raw" => has_aggregate_function(elast.out.val)
    /\ (elast.op \in {"wrap", "construct", "resolve_column_references"}
        /\ elast.out.err = "None")
       => /\ has_aggregate_function(elast.out.val)
             = HasToken(elast.out.val, "AggFunctionRawToken")
          /\ has_aggregate_function(elast.out.val)
             = (\E k \in DOMAIN elast.args : has_aggregate_function(ArgExpr(k)))

\* the aggregate function sits in a nested Expression of what construct returned
C12_Witness ==
    /\ ConstructReturned
    /\ has_aggregate_function(elast.out.val)
    /\ \E i \in DOMAIN elast.out.val.data :
           /\ IsExpression(elast.out.val.data[i])
           /\ HasToken(elast.out.val.data[i], "AggFunctionRawToken")

ListReturned == elast.op = "list" /\ elast.out.err = "None"

RECURSIVE SplicedLen(_, _)
\* the number of elements a list gives when the data of every child
\* Expression of one of the classes is spliced in place
SplicedLen(data, classes) ==
    IF data = <<>> THEN 0
    ELSE (IF IsExpression(Head(data)) /\ Head(data).kind \in classes
          THEN Len(Head(data).data) ELSE 1)
         + SplicedLen(Tail(data), classes)

\* C16 as stated: the elements of every child Expression of the list, of any
\* class, are spliced in place of the child, and no element of the new
\* Expression is a child itself.
C16_FlattensEveryChild ==
    ListReturned
    => /\ Len(elast.out.val.data) = SplicedLen(elast.args, ExpressionClasses)
       /\ \A i \in DOMAIN elast.args :
              IsExpression(elast.args[i])
              => \A j \in DOMAIN elast.out.val.data :
                     elast.out.val.data[j] # elast.args[i]

\* C16 amended: the elements of every child whose class is exactly Expression
\* are spliced in place of the child; a child of a tagged class is kept as
\* one element, with its tag; the tokens keep their order.
C16_FlattensPlainChildren ==
    ListReturned
    => /\ Len(elast.out.val.data) = SplicedLen(elast.args, {"Expression"})
       /\ Leaves(elast.out.val) = LeavesOfData(elast.args)
       /\ \A j \in DOMAIN elast.out.val.data :
              elast.out.val.data[j].kind # "Expression"
       /\ \A i \in DOMAIN elast.args :
              (IsExpression(elast.args[i]) /\ elast.args[i].kind # "Expression")
              => \E j \in DOMAIN elast.out.val.data :
                     elast.out.val.data[j] = elast.args[i]

\* a list with a tagged child that is kept and a plain child that is spliced
C16_Witness ==
    /\ ListReturned
    /\ elast.args[2].kind = "SingleValueExpression"
    /\ elast.args[2].data # <<>>
    /\ elast.args[3].kind = "Expression"
    /\ elast.out.val.data = <<elast.args[1], elast.args[2]>> \o elast.args[3].data

RECURSIVE ScanFormat(_, _)
\* reading a format text from left to right as str.format does: doubled
\* braces are literal, '{' opens a placeholder that the next '}' closes.
\* names are the placeholders met so far; ok is false for a stray brace
ScanFormat(text, names) ==
    IF text = <<>> THEN [ok |-> TRUE, names |-> names]
    ELSE IF Len(text) >= 2 /\ text[1] = text[2] /\ text[1] \in {"{", "}"}
         THEN ScanFormat(SubSeq(text, 3, Len(text)), names)
    ELSE IF text[1] = "{"
         THEN LET closing == {j \in 2..Len(text) : text[j] = "}"}
              IN IF closing = {} THEN [ok |-> FALSE, names |-> names]
                 ELSE LET j == CHOOSE k \in closing : \A l \in closing : k <= l
                      IN ScanFormat(SubSeq(text, j + 1, Len(text)),
                                    names \cup {SubSeq(text, 2, j - 1)})
    ELSE IF text[1] = "}" THEN [ok |-> FALSE, names |-> names]
    ELSE ScanFormat(Tail(text), names)

Placeholders(text) == ScanFormat(text, {})

ModelTokens(e) == {i \in DOMAIN Leaves(e) : Leaves(e)[i].kind = "ModelReferenceToken"}

PlaceholdersAreReferences(e) ==
    /\ DOMAIN get_references(e) = {refname(Leaves(e)[i]) : i \in ModelTokens(e)}
    /\ \A i \in ModelTokens(e) :
           get_references(e)[refname(Leaves(e)[i])].hash = Leaves(e)[i].model.hash
    /\ \A table \in TableNames :
           /\ Placeholders(to_sql(e, table).val).ok
           /\ Placeholders(to_sql(e, table).val).names = DOMAIN get_references(e)

\* C20: the placeholders in the text to_sql gives are the refnames of the
\* ModelReference tokens of the Expression, at any depth, which are the keys
\* of get_references(); the braces of Raw text and of string values are
\* escaped; tokens that refer to units of one hash give one entry.
C20_Placeholders ==
    /\ PlaceholdersAreReferences(ex)
    /\ (IsExpression(elast.out.val) /\ elast.out.err = "None")
       => PlaceholdersAreReferences(elast.out.val)

\* two ModelReference tokens to one unit give one entry and one placeholder name
C20_Witness ==
    /\ ConstructReturned
    /\ Cardinality(ModelTokens(elast.out.val)) = 2
    /\ Cardinality(DOMAIN get_references(elast.out.val)) = 1
    /\ Placeholders(to_sql(elast.out.val, <<>>).val).names
         = {<<"r", "e", "f", "e", "r", "e", "n", "c", "e", "h", "1">>}

\* ------------------------------------------------------------------------
\* Series operations as steps: cur is the Series at hand, slast the last call
\* made on it, with its arguments and its outcome. cfrom is the call that
\* returned cur, and cmarks records what the expression of cur was derived by
\* ("aggregated", "windowed") since its base_node was last materialized.
\* ------------------------------------------------------------------------

N1 == BaseNode(<<"h", "1">>)
N2 == BaseNode(<<"h", "2">>)

G0 == GroupBy(<<>>)
G1 == GroupBy(<<<<"g">>>>)
W1 == Window(<<<<"g">>>>, 1)

ColumnX == ExpressionColumnReference("Expression", <<"x">>)
ColumnY == ExpressionColumnReference("Expression", <<"y">>)

\* the Series a DataFrame hands out: a column of its base_node, with the
\* DataFrame's index, group_by and sorting
InitialSeries ==
    {Series("int64", "engine", N1, <<<<"i">>>>, <<"x">>, ColumnX, NoGroupBy, <<>>),
     Series("int64", "engine", N1, G1.index, <<"x">>, ColumnX, G1, <<TRUE>>)}

\* the right-hand operands: Series of the same and of other contexts, with
\* one row or many, and plain Python values
OtherY(dtype, base_node, expression, group_by) ==
    Series(dtype, "engine", base_node, <<<<"i">>>>, <<"y">>, expression, group_by, <<>>)

Others ==
    {OtherY("int64", N1, ColumnY, NoGroupBy),
     OtherY("string", N1, ColumnY, NoGroupBy),
     OtherY("int64", N2, ColumnY, NoGroupBy),
     OtherY("int64", N1, ColumnY, G1),
     OtherY("int64", N2, WrapExpression("SingleValueExpression", ColumnY), NoGroupBy),
     OtherY("string", N2, WrapExpression("SingleValueExpression", ColumnY), NoGroupBy),
     max(OtherY("int64", N2, ColumnY, NoGroupBy), NoGroupBy, TRUE).val,
     any_value(OtherY("int64", N2, ColumnY, NoGroupBy)).val,
     Value("int", <<"1">>)}

OtherDtypes == {{}, {"int64"}}

Partitions == {NoGroupBy, G0, G1, W1, DataFrame(G1), DataFrame(NoGroupBy)}

\* the values handed over as default of window_lag, and to value_to_expression
Values ==
    {NoneValue, Value("int", <<"0">>), Value("str", <<"a">>),
     Value("bool", <<"T", "r", "u", "e">>)}

Aggregates == {"count", "max", "median", "min", "mode", "nunique"}

Rankings ==
    {"window_row_number", "window_rank", "window_dense_rank", "window_percent_rank",
     "window_cume_dist"}

WindowFunctions ==
    Rankings \cup {"window_ntile", "window_lag", "window_lead", "window_first_value",
                   "window_last_value", "window_nth_value"}

\* the calls whose result is taken as the next Series at hand
Chained ==
    {"max", "median", "window_row_number", "add", "as_independent_subquery", "exists"}

SCall(op, other, partition, skipna, other_dtypes, out) ==
    [op |-> op, self |-> cur, from |-> cfrom, marks |-> cmarks, other |-> other,
     partition |-> partition, skipna |-> skipna, other_dtypes |-> other_dtypes,
     out |-> out]

\* a call on cur that gives the marks `marks` to what it returns
SStep(op, other, partition, skipna, other_dtypes, out, marks) ==
    /\ slast' = SCall(op, other, partition, skipna, other_dtypes, out)
    /\ IF out.err = "None" /\ op \in Chained /\ csteps < MaxOps
       THEN cur' = out.val /\ csteps' = csteps + 1 /\ cfrom' = op /\ cmarks' = marks
       ELSE UNCHANGED <<cur, csteps, cfrom, cmarks>>
    /\ UNCHANGED evars

SInit ==
    /\ cur \in InitialSeries
    /\ csteps = 0
    /\ cfrom = "none"
    /\ cmarks = {}
    /\ slast = [op |-> "none", self |-> cur, from |-> "none", marks |-> {},
                other |-> NoValue, partition |-> NoGroupBy, skipna |-> TRUE,
                other_dtypes |-> {}, out |-> Raised("NoCall")]

AggregateCall(fn, self, partition, skipna) ==
    CASE fn = "count" -> count(self, partition, skipna)
      [] fn = "max" -> max(self, partition, skipna)
      [] fn = "median" -> median(self, partition, skipna)
      [] fn = "min" -> min(self, partition, skipna)
      [] fn = "mode" -> mode(self, partition, skipna)
      [] fn = "nunique" -> nunique(self, partition, skipna)

\* the name of the SQL function of a ranking window function
RankingName(fn) ==
    CASE fn = "window_row_number" -> <<"r", "o", "w", "_", "n", "u", "m", "b", "e", "r">>
      [] fn = "window_rank" -> <<"r", "a", "n", "k">>
      [] fn = "window_dense_rank" -> <<"d", "e", "n", "s", "e", "_", "r", "a", "n", "k">>
      [] fn = "window_percent_rank" ->
            <<"p", "e", "r", "c", "e", "n", "t", "_", "r", "a", "n", "k">>
      [] fn = "window_cume_dist" -> <<"c", "u", "m", "e", "_", "d", "i", "s", "t">>

RankingDtype(fn) ==
    IF fn \in {"window_percent_rank", "window_cume_dist"} THEN "double precision"
    ELSE "int64"

WindowCall(fn, self, window, n, default) ==
    CASE fn \in Rankings -> window_ranking(self, window, RankingName(fn), RankingDtype(fn))
      [] fn = "window_ntile" -> window_ntile(self, window, n)
      [] fn = "window_lag" -> window_lag_lead(self, window, <<"l", "a", "g">>, n, default)
      [] fn = "window_lead" ->
            window_lag_lead(self, window, <<"l", "e", "a", "d">>, n, default)
      [] fn = "window_first_value" ->
            window_value(self, window, <<"f", "i", "r", "s", "t", "_", "v", "a", "l", "u", "e">>)
      [] fn = "window_last_value" ->
            window_value(self, window, <<"l", "a", "s", "t", "_", "v", "a", "l", "u", "e">>)
      [] fn = "window_nth_value" -> window_nth_value(self, window, n)

\* count(), max(), median(), min(), mode(), nunique()
Aggregate ==
    \E fn \in Aggregates, partition \in Partitions, skipna \in BOOLEAN :
        /\ fn = "max" \/ partition \in {NoGroupBy, W1}
        /\ skipna \/ (fn = "max" /\ partition = NoGroupBy)
        /\ \E out \in {AggregateCall(fn, cur, partition, skipna)} :
               SStep(fn, NoValue, partition, skipna, {}, out, cmarks \cup {"aggregated"})

\* the window_* functions
WindowFunction ==
    \E fn \in WindowFunctions, window \in Partitions, n \in 1..2,
       default \in Values :
        /\ fn = "window_row_number" \/ window = W1
        /\ fn = "window_lag" \/ default = NoneValue
        /\ fn \in {"window_lag", "window_ntile"} \/ n = 1
        /\ \E out \in {WindowCall(fn, cur, window, n, default)} :
               SStep(fn, [kind |-> "arguments", n |-> n, default |-> default], window,
                     TRUE, {}, out, cmarks \cup {"windowed"})

\* the marks of the result of a binary operation: those of self, and those
\* of an rhs Series whose expression is used as it is
BinaryMarks(other, out) ==
    cmarks \cup
    (IF other.kind = "Series" /\ out.err = "None"
        /\ \E i \in DOMAIN out.val.expression.data :
               out.val.expression.data[i] = other.expression
     THEN {m \in {"aggregated"} : has_aggregate_function(other.expression)}
     ELSE {})

\* __add__, __floordiv__ and __gt__ as the Series classes call them, with the
\* dtypes they accept for the rhs; fillna()
BinaryOperation ==
    \E op \in {"add", "floordiv", "gt", "fillna"}, other \in Others,
       other_dtypes \in OtherDtypes :
        /\ op = "add" \/ other_dtypes = {"int64"}
        /\ op \in {"add", "gt"} \/ other \in {OtherY("int64", N1, ColumnY, NoGroupBy),
                                                Value("int", <<"1">>)}
        /\ \E out \in
               {CASE op = "add" ->
                            arithmetic_operation(cur, other, PlusFmt, other_dtypes, DtypeNone)
                     [] op = "floordiv" ->
                            arithmetic_operation(
                                cur, other,
                                <<"f", "l", "o", "o", "r", "(", "{", "}", " ", "/", " ",
                                  "{", "}", ")">>,
                                other_dtypes, DtypeStr("int64"))
                     [] op = "gt" -> comparator_operation(cur, other, <<">">>, other_dtypes)
                     [] op = "fillna" ->
                            binary_operation(
                                cur, other,
                                <<"C", "O", "A", "L", "E", "S", "C", "E", "(", "{", "}",
                                  ",", " ", "{", "}", ")">>,
                                {cur.dtype}, DtypeNone)} :
               SStep(op, other, NoGroupBy, TRUE,
                     IF op = "fillna" THEN {cur.dtype} ELSE other_dtypes,
                     out, BinaryMarks(other, out))

\* sort_values(ascending)
SortValues ==
    \E ascending \in BOOLEAN :
        \E out \in {sort_values(cur, ascending)} :
            SStep("sort_values", [kind |-> "bool", value |-> ascending], NoGroupBy, TRUE,
                  {}, out, cmarks)

\* the dtypes asked of astype
TargetDtypes == {"int64", "string", "bool", "boolean"}

\* astype(dtype)
AsType ==
    \E dtype \in TargetDtypes :
        \E out \in {astype(cur, dtype)} :
            SStep("astype", [kind |-> "dtype", dtype |-> dtype], NoGroupBy, TRUE,
                  {}, out, cmarks)

\* the table from the dtype of the rhs to the dtype of the result that an
\* arithmetic operation of a Series class gives to _arithmetic_operation
DtypeTable == "string" :> "float64"

\* __eq__, and an arithmetic operation whose result dtype is looked up by the
\* dtype of the rhs
TableOperation ==
    \E op \in {"eq", "mul"}, other \in Others, other_dtypes \in OtherDtypes :
        /\ op = "eq" \/ other_dtypes # {}
        /\ other \in {OtherY("int64", N1, ColumnY, NoGroupBy),
                      OtherY("string", N1, ColumnY, NoGroupBy),
                      OtherY("int64", N2, ColumnY, NoGroupBy)}
        /\ \E out \in
               {CASE op = "eq" -> comparator_operation(cur, other, <<"=">>, other_dtypes)
                  [] op = "mul" ->
                        arithmetic_operation(cur, other, <<"{", "}", " ", "*", " ", "{", "}">>,
                                             {"int64", "string"}, DtypeDict(DtypeTable))} :
               SStep(op, other, NoGroupBy, TRUE,
                     IF op = "mul" THEN {"int64", "string"} ELSE other_dtypes,
                     out, BinaryMarks(other, out))

\* as_independent_subquery(cur), exists(), any_value(), all_values()
IndependentSubquery ==
    \E op \in {"as_independent_subquery", "exists", "any_value", "all_values"} :
        \E out \in {CASE op = "as_independent_subquery" ->
                                as_independent_subquery(cur, <<>>, <<>>)
                         [] op = "exists" -> exists(cur)
                         [] op = "any_value" -> any_value(cur)
                         [] op = "all_values" -> all_values(cur)} :
            SStep(op, NoValue, NoGroupBy, TRUE, {}, out, {})

\* isin(other)
IsIn ==
    \E other \in Others :
        /\ other \in {OtherY("int64", N2, ColumnY, NoGroupBy),
                      OtherY("int64", N2, WrapExpression("SingleValueExpression", ColumnY),
                             NoGroupBy)}
        /\ SStep("isin", other, NoGroupBy, TRUE, {}, isin(cur, other), cmarks)

\* value_to_expression(value) of the class of cur
ValueToExpression ==
    \E value \in Values :
        \E out \in {value_to_expression(cur.dtype, value)} :
            SStep("value_to_expression", value, NoGroupBy, TRUE, {}, out, cmarks)

\* what the Series classes hand to _derived_agg_func: the name of an
\* aggregate function, or an Expression that holds no aggregate function
AggExpressions ==
    {FunctionName(<<"s", "u", "m">>),
     Construct("Expression", <<"r", "o", "w", "_", "n", "u", "m", "b", "e", "r", "(", ")">>,
               <<>>).val}

\* the min_count given: None, 0, 1 or 2
MinCounts == {<<>>, <<0>>, <<1>>, <<2>>}

\* _derived_agg_func(partition, expression, min_count=min_count)
DerivedAggFunc ==
    \E partition \in {NoGroupBy, G1, W1}, expression \in AggExpressions,
       min_count \in MinCounts :
        \E out \in {derived_agg_func(cur, partition, expression, <<>>, TRUE, min_count)} :
            SStep("derived_agg_func",
                  [kind |-> "arguments", expression |-> expression, min_count |-> min_count],
                  partition, TRUE, {}, out,
                  cmarks \cup {IF IsWindow(partition) THEN "windowed" ELSE "aggregated"})

\* ------------------------------------------------------------------------
\* Properties of the Series operations
\* ------------------------------------------------------------------------

ReaggregationErrors == {"ValueError: already windowed", "ValueError: already aggregated"}

\* the last call was a reducing aggregate called like s.max(): no partition
\* given, skipna left at True
PlainAggregate ==
    /\ slast.op \in Aggregates
    /\ slast.partition = NoGroupBy
    /\ slast.skipna

\* C1: the first call of a reducing aggregate on a Series succeeds, and a
\* reducing aggregate called on its result raises the illegal-reaggregation
\* error, also when the first call aggregated the whole input.
C1_AggregateTwice ==
    /\ (PlainAggregate /\ slast.from = "none") => slast.out.err = "None"
    /\ (PlainAggregate /\ slast.from \in Aggregates)
       => slast.out.err \in ReaggregationErrors

\* C7: no aggregate and no window function returns a Series when the
\* expression of its receiver was left aggregated or windowed by the calls
\* before.
C7_NoReaggregation ==
    (slast.op \in Aggregates \cup WindowFunctions /\ slast.marks # {})
    => slast.out.err # "None"

BinaryOps == {"add", "floordiv", "gt", "fillna", "eq", "mul"}

\* the rhs of the last call is a Series of another context than self whose
\* expression is neither constant nor an independent subquery
OtherContext ==
    /\ slast.op \in BinaryOps
    /\ slast.other.kind = "Series"
    /\ ~is_constant(slast.other.expression)
    /\ ~is_independent_subquery(slast.other.expression)
    /\ \/ slast.self.base_node # slast.other.base_node
       \/ slast.self.group_by # slast.other.group_by

ContextError == "ValueError: rhs has a different base_node or group_by"

\* C4 as stated: a binary operation whose rhs is of another context and not
\* single-valued raises the context-incompatibility error.
C4_ContextErrorAlways ==
    (OtherContext /\ ~is_single_value(slast.other.expression))
    => slast.out.err = ContextError

\* C4 amended: it raises the context-incompatibility error when the list of
\* accepted rhs dtypes is not empty; with an empty list the call fails before
\* the rhs is looked at (TypeError from the arithmetic and comparison entry
\* points, NotImplementedError from _binary_operation). No Series is returned
\* in either case.
C4_ContextError ==
    (OtherContext /\ ~is_single_value(slast.other.expression))
    => IF slast.other_dtypes # {}
       THEN slast.out.err = ContextError
       ELSE slast.out.err \in {"TypeError: arithmetic operation", "TypeError: comparator",
                               "NotImplementedError: binary operation"}

C4_Witness ==
    /\ OtherContext
    /\ ~is_single_value(slast.other.expression)
    /\ slast.self.base_node # slast.other.base_node
    /\ slast.op = "gt"
    /\ slast.out.err = ContextError

\* the tokens of '(SELECT <name> FROM <reference to the unit materialized
\* from series>)'
SubqueryLeaves(series) ==
    <<RawToken(<<"(", "S", "E", "L", "E", "C", "T", " ">>),
      ColumnReferenceToken(series.name),
      RawToken(<<" ", "F", "R", "O", "M", " ">>),
      ModelReferenceToken([hash |-> <<"m", "_">> \o series.base_node.hash,
                           of |-> <<[name |-> series.name,
                                     expression |-> series.expression,
                                     group_by |-> series.group_by,
                                     base_node |-> series.base_node]>>]),
      RawToken(<<")">>)>>

\* the last nested Expression of e: the rhs of a binary operation
LastNested(e) ==
    e.data[CHOOSE i \in DOMAIN e.data :
               /\ IsExpression(e.data[i])
               /\ \A j \in DOMAIN e.data : IsExpression(e.data[j]) => j <= i]

ModelReferences(tokens) ==
    {i \in DOMAIN tokens : tokens[i].kind = "ModelReferenceToken"}

\* C5: a binary operation whose rhs is of another context, single-valued and
\* of an accepted dtype succeeds, and the rhs of the expression of the result
\* is '(SELECT <b.name> FROM <reference>)', with one ModelReference, to the
\* unit materialized from b.
C5_SubqueryRhs ==
    (/\ OtherContext
     /\ is_single_value(slast.other.expression)
     /\ Lower(slast.other.dtype) \in slast.other_dtypes)
    => /\ slast.out.err = "None"
       /\ \E i \in DOMAIN slast.out.val.expression.data :
              IsExpression(slast.out.val.expression.data[i])
       /\ Leaves(LastNested(slast.out.val.expression)) = SubqueryLeaves(slast.other)
       /\ Cardinality(ModelReferences(Leaves(slast.out.val.expression)))
            = Cardinality(ModelReferences(Leaves(slast.self.expression))) + 1

C5_Witness ==
    /\ OtherContext
    /\ is_single_value(slast.other.expression)
    /\ slast.op = "gt"
    /\ slast.out.err = "None"
    /\ to_sql(LastNested(slast.out.val.expression), <<>>).val =
         <<"(", "S", "E", "L", "E", "C", "T", " ", "\"", "y", "\"", " ", "F", "R",
           "O", "M", " ", "{", "r", "e", "f", "e", "r", "e", "n", "c", "e", "m",
           "_", "h", "2", "}", ")">>

\* C6: the expression of the Series as_independent_subquery, exists,
\* any_value and all_values return is an independent-subquery expression.
C6_IndependentSubquery ==
    (/\ slast.op \in {"as_independent_subquery", "exists", "any_value", "all_values"}
     /\ slast.out.err = "None")
    => is_independent_subquery(slast.out.val.expression)

\* the outcome is the receiver itself, not a new instance
IsSelf(out) == "is_self" \in DOMAIN out

SeriesReturned == slast.op # "none" /\ slast.out.err = "None"

\* C13: every Series operation returns a new instance, distinct from its
\* receiver, and the Series at hand is the receiver as it was or the result.
C13_NewInstance ==
    SeriesReturned
    => /\ ~IsSelf(slast.out)
       /\ cur \in {slast.self, slast.out.val}

SubqueryOps == {"as_independent_subquery", "exists", "any_value", "all_values"}

\* C14: the Series as_independent_subquery, exists, any_value and all_values
\* return has an empty index and group_by None, and the name, engine and
\* sorted_ascending of the input.
C14_SubqueryFrame ==
    (slast.op \in SubqueryOps /\ slast.out.err = "None")
    => /\ slast.out.val.index = <<>>
       /\ slast.out.val.group_by = NoGroupBy
       /\ slast.out.val.name = slast.self.name
       /\ slast.out.val.engine = slast.self.engine
       /\ slast.out.val.sorted_ascending = slast.self.sorted_ascending

\* the input had an index, a pending group_by and a sorting
C14_Witness ==
    /\ slast.op \in SubqueryOps
    /\ slast.self.index # <<>>
    /\ slast.self.group_by.kind = "GroupBy"
    /\ slast.self.sorted_ascending = <<TRUE>>
    /\ slast.out.val.index = <<>>
    /\ slast.out.val.sorted_ascending = <<TRUE>>

\* C15: the expression of what as_independent_subquery returns is
\* single-valued exactly when the expression of its input is; what exists()
\* returns is single-valued and of dtype bool.
C15_SubqueryCardinality ==
    /\ slast.op = "as_independent_subquery"
       => is_single_value(slast.out.val.expression)
          = is_single_value(slast.self.expression)
    /\ slast.op = "exists"
       => /\ is_single_value(slast.out.val.expression)
          /\ slast.out.val.dtype = "bool"

\* a single-valued input, the result of a whole-input aggregate
C15_Witness ==
    /\ slast.op = "as_independent_subquery"
    /\ slast.from \in Aggregates
    /\ is_single_value(slast.self.expression)
    /\ is_single_value(slast.out.val.expression)

\* the dtype of the rhs of the last call, as a Series
RhsDtype ==
    IF slast.other.kind = "Series" THEN slast.other.dtype ELSE value_to_dtype(slast.other)

\* the rhs is not turned down for its context
PassesContext == ~(OtherContext /\ ~is_single_value(slast.other.expression))

\* C17: a binary operation whose rhs is of a dtype that is not in the list
\* of accepted dtypes returns no Series, and raises the type-mismatch error
\* when the rhs, as it is or as a subquery, is not turned down for its
\* context; with an empty list every arithmetic and comparison operation
\* raises TypeError for every rhs.
C17_DtypeCheck ==
    slast.op \in BinaryOps
    => /\ slast.other_dtypes = {}
          => slast.out.err \in {"TypeError: arithmetic operation", "TypeError: comparator"}
       /\ (slast.other_dtypes # {} /\ Lower(RhsDtype) \notin slast.other_dtypes)
          => /\ slast.out.err # "None"
             /\ PassesContext => slast.out.err = "TypeError: dtype not supported"

\* the rhs was to be used as a subquery and is of a dtype that is not accepted
C17_Witness ==
    /\ slast.op = "gt"
    /\ OtherContext
    /\ is_single_value(slast.other.expression)
    /\ slast.other.dtype = "string"
    /\ slast.other_dtypes = {"int64"}
    /\ slast.out.err = "TypeError: dtype not supported"

\* the dtype the result of the last binary operation is to have
ExpectedDtype ==
    CASE slast.op \in {"gt", "eq"} -> "bool"
      [] slast.op = "floordiv" -> "int64"
      [] slast.op = "mul" -> IF RhsDtype \in DOMAIN DtypeTable THEN DtypeTable[RhsDtype]
                             ELSE slast.self.dtype
      [] OTHER -> slast.self.dtype

\* C18: the result of a binary operation is of the fixed dtype when one is
\* given (bool for the comparisons, int64 for floor division), else of the
\* dtype the table gives for the dtype of the rhs, else of the dtype of self;
\* a == b for Series of one base_node and no group_by raises no context
\* error and, b being of an accepted dtype, returns a Series of dtype bool.
C18_ResultDtype ==
    /\ (slast.op \in BinaryOps /\ slast.out.err = "None")
       => slast.out.val.dtype = ExpectedDtype
    /\ (/\ slast.op = "eq"
        /\ slast.other.kind = "Series"
        /\ slast.self.base_node = slast.other.base_node
        /\ slast.self.group_by = NoGroupBy
        /\ slast.other.group_by = NoGroupBy)
       => /\ slast.out.err # ContextError
          /\ Lower(RhsDtype) \in slast.other_dtypes
             => (slast.out.err = "None" /\ slast.out.val.dtype = "bool")

\* the dtype of the result was looked up by the dtype of the rhs
C18_Witness ==
    /\ slast.op = "mul"
    /\ slast.out.err = "None"
    /\ slast.self.dtype = "int64"
    /\ slast.other.dtype = "string"
    /\ slast.out.val.dtype = "float64"

\* C19: astype to the dtype of the Series, or to an alias of it, returns a
\* Series equal to the receiver, with no conversion of its expression.
C19_AstypeNoop ==
    (/\ slast.op = "astype"
     /\ \/ slast.other.dtype = slast.self.dtype
        \/ slast.other.dtype \in dtype_aliases(slast.self.dtype))
    => /\ slast.out.err = "None"
       /\ slast.out.val = slast.self

\* astype to an alias of the dtype of the Series
C19_Witness ==
    /\ slast.op = "astype"
    /\ slast.self.dtype = "bool"
    /\ slast.other.dtype = "boolean"
    /\ slast.out.val = slast.self

\* the text a window function's result renders to, up to the framing the
\* window put behind it
WindowSuffix == <<" ", "o", "v", "e", "r", " ", "(", ")">>

WindowedSql(series) ==
    LET text == to_sql(series.expression, <<>>).val
    IN SubSeq(text, 1, Len(text) - Len(WindowSuffix))

\* 'lag(<col>, <offset>, <default>)'
LagText(col, offset, default) ==
    <<"l", "a", "g", "(">> \o col \o <<",", " ">> \o IntText(offset) \o <<",", " ">>
    \o default \o <<")">>

\* the literal a default value is encoded to
DefaultSql(dtype, default) == to_sql(value_to_expression(dtype, default).val, <<>>).val

LagReturned == slast.op = "window_lag" /\ slast.out.err = "None"

\* C21 as stated: window_lag(window, offset, default) under a true Window
\* hands the window an expression that renders as 'lag(<col>, <offset>,
\* <default literal>)', <col> being the rendered expression of the Series, and
\* the result keeps the dtype of the Series.
C21_LagOfRendered ==
    LagReturned
    => /\ WindowedSql(slast.out.val)
          = LagText(to_sql(slast.self.expression, <<>>).val, slast.other.n,
                    DefaultSql(slast.self.dtype, slast.other.default))
       /\ slast.out.val.dtype = slast.self.dtype

\* C21 amended: <col> is the rendered expression of the Series, in
\* parentheses when that expression is a NonAtomicExpression.
C21_LagOfOperand ==
    LagReturned
    => /\ WindowedSql(slast.out.val)
          = LagText(OperandSql(slast.self), slast.other.n,
                    DefaultSql(slast.self.dtype, slast.other.default))
       /\ slast.out.val.dtype = slast.self.dtype

\* window_lag(window, offset=2, default=0) on an integer column: 'lag("x", 2, 0)'
C21_Witness ==
    /\ LagReturned
    /\ slast.self.expression = ColumnX
    /\ slast.self.dtype = "int64"
    /\ WindowedSql(slast.out.val)
       = <<"l", "a", "g", "(", "\"", "x", "\"", ",", " ", "2", ",", " ", "0", ")">>

ValueCall == slast.op = "value_to_expression"

\* C22: value_to_expression(value) returns the raw 'NULL' expression when
\* value is None, raises TypeError and returns nothing when value is not of
\* one of the supported_value_types of the dtype, and otherwise returns
\* exactly what supported_value_to_expression(value) returns.
C22_ValueToExpression ==
    ValueCall
    => IF slast.other.type = "NoneType"
       THEN /\ slast.out.err = "None"
            /\ slast.out.val.kind = "Expression"
            /\ slast.out.val.data = <<RawToken(<<"N", "U", "L", "L">>)>>
       ELSE IF ~IsInstance(slast.other, supported_value_types(slast.self.dtype))
       THEN slast.out = Raised("TypeError: value type")
       ELSE slast.out = Returned(supported_value_to_expression(slast.self.dtype, slast.other))

\* a str handed to the value_to_expression of an integer Series
C22_Witness ==
    /\ ValueCall
    /\ slast.self.dtype = "int64"
    /\ slast.other.type = "str"
    /\ slast.out.err = "TypeError: value type"

\* the partition the last call gave, unwrapped from a DataFrame
GivenPartition ==
    IF slast.partition.kind = "DataFrame" THEN slast.partition.group_by ELSE slast.partition

\* the partition an aggregation works within: the one given, else the
\* group_by of the Series, else a grouping by nothing
EffectivePartition ==
    IF slast.partition.kind # "None" THEN GivenPartition
    ELSE IF slast.self.group_by.kind # "None" THEN slast.self.group_by
    ELSE GroupBy(<<>>)

\* the last call was an aggregation within a partition that is no Window,
\* and it returned a Series
AggregateReturned ==
    /\ slast.op \in Aggregates
    /\ slast.out.err = "None"
    /\ ~IsWindow(EffectivePartition)

\* C23: a successful non-window aggregation returns a Series whose index is
\* the index of the effective partition and whose group_by is that partition;
\* base_node, engine, name and sorted_ascending are those of the receiver.
C23_AggregateFrame ==
    AggregateReturned
    => /\ slast.out.val.index = EffectivePartition.index
       /\ slast.out.val.group_by = EffectivePartition
       /\ slast.out.val.base_node = slast.self.base_node
       /\ slast.out.val.engine = slast.self.engine
       /\ slast.out.val.name = slast.self.name
       /\ slast.out.val.sorted_ascending = slast.self.sorted_ascending

\* max(G1) on a Series without group_by, whose index is not that of G1
C23_Witness ==
    /\ AggregateReturned
    /\ slast.self.group_by = NoGroupBy
    /\ GivenPartition = G1
    /\ slast.self.index # G1.index
    /\ slast.out.val.index = G1.index
    /\ slast.out.val.group_by = G1

\* C24: a successful non-window aggregation yields an expression that is
\* single-valued if and only if the effective partition has an empty grouping
\* key, also when the min_count guard wrapped the aggregate in a CASE
\* expression.
C24_SingleValueIffUngrouped ==
    (/\ slast.op \in Aggregates \cup {"derived_agg_func"}
     /\ slast.out.err = "None"
     /\ ~IsWindow(EffectivePartition))
    => (is_single_value(slast.out.val.expression) <=> EffectivePartition.index = <<>>)

\* the last call worked within a true Window and returned a Series
WindowedReturned ==
    /\ slast.op \in Aggregates \cup WindowFunctions \cup {"derived_agg_func"}
    /\ slast.out.err = "None"
    /\ IsWindow(EffectivePartition)

\* the Expression handed to _derived_agg_func, where the last call handed one
\* and no min_count
GivenExpression ==
    IF slast.op = "derived_agg_func" THEN slast.other.expression
    ELSE Construct("Expression", RankingName(slast.op) \o <<"(", ")">>, <<>>).val

\* C25: a successful aggregation or window function within a true Window
\* returns a Series with the index, group_by, base_node and name of the
\* receiver; its expression is what get_window_expression of the window
\* gives for the aggregate expression, it is no SingleValueExpression, and
\* the index is not rebound to that of the window.
C25_WindowFrame ==
    WindowedReturned
    => /\ slast.out.val.index = slast.self.index
       /\ slast.out.val.group_by = slast.self.group_by
       /\ slast.out.val.base_node = slast.self.base_node
       /\ slast.out.val.name = slast.self.name
       /\ slast.out.val.expression.kind # "SingleValueExpression"
       /\ \E i \in DOMAIN slast.out.val.expression.data :
              slast.out.val.expression
              = get_window_expression(EffectivePartition,
                                      NewExpression("Expression",
                                                    SubSeq(slast.out.val.expression.data, 1, i)))
       /\ (\/ slast.op \in Rankings
           \/ (slast.op = "derived_agg_func" /\ slast.other.expression.kind = "Expression"))
          => slast.out.val.expression
             = get_window_expression(EffectivePartition, GivenExpression)

\* row_number() within a Window by g, on a Series whose index is not g
C25_Witness ==
    /\ WindowedReturned
    /\ slast.op = "derived_agg_func"
    /\ slast.other.expression.kind = "Expression"
    /\ slast.self.index # EffectivePartition.index
    /\ slast.out.val.index = slast.self.index
    /\ slast.self.group_by = NoGroupBy

NoAggregationError == "ValueError: should contain an aggregation function"

\* the aggregate expression of the last direct call of _derived_agg_func: the
\* template of a named function applied to the Series, or the Expression given
NamedOrGiven ==
    IF slast.other.expression.kind = "str"
    THEN Construct("AggregateFunctionExpression",
                   slast.other.expression.name \o <<"(", "{", "}", ")">>, <<slast.self>>).val
    ELSE slast.other.expression

MinCountGiven == slast.other.min_count # <<>> /\ slast.other.min_count[1] > 0

\* the count the min_count guard compares with min_count
GuardCount == count(slast.self, EffectivePartition, TRUE)

\* that expression after the min_count guard has wrapped it
GuardedExpression ==
    IF MinCountGiven
    THEN Construct("Expression", CaseWhenFmt(slast.other.min_count[1]),
                   <<GuardCount.val, NamedOrGiven>>).val
    ELSE NamedOrGiven

\* C26: within a partition that is no Window, _derived_agg_func returns no
\* Series when the aggregate expression, as a named function template or as
\* the Expression given and after the min_count guard wrapped it, does not
\* report has_aggregate_function; count, max, min, median, mode and nunique on
\* a Series that is neither aggregated nor windowed never fail this check.
C26_AggregationRequired ==
    /\ (/\ slast.op = "derived_agg_func"
        /\ ~IsWindow(EffectivePartition)
        /\ MinCountGiven => GuardCount.err = "None"
        /\ ~has_aggregate_function(GuardedExpression))
       => slast.out.err # "None"
    /\ (/\ slast.op \in Aggregates
        /\ slast.marks = {}
        /\ ~IsWindow(EffectivePartition))
       => slast.out.err # NoAggregationError

\* row_number() handed to _derived_agg_func without a Window
C26_Witness ==
    /\ slast.op = "derived_agg_func"
    /\ slast.partition = G1
    /\ slast.other.expression.kind = "Expression"
    /\ ~MinCountGiven
    /\ slast.out.err = NoAggregationError

AggregationCall == slast.op \in Aggregates \cup {"derived_agg_func"}

PartitionMismatch == "ValueError: passed partition does not match series partition"

\* C27: the partition an aggregation works within is the one given
\* (unwrapped from a DataFrame), else the pending group_by of the Series, else
\* a grouping by nothing; and on a Series with a pending group_by a partition
\* given that is no Window and differs from it is rejected with an error.
C27_EffectivePartition ==
    /\ (AggregationCall /\ slast.out.err = "None" /\ ~IsWindow(EffectivePartition))
       => /\ slast.partition.kind = "DataFrame"
             => slast.out.val.group_by = slast.partition.group_by
          /\ slast.partition.kind = "GroupBy"
             => slast.out.val.group_by = slast.partition
          /\ (slast.partition.kind = "None" /\ slast.self.group_by.kind # "None")
             => slast.out.val.group_by = slast.self.group_by
          /\ (slast.partition.kind = "None" /\ slast.self.group_by.kind = "None")
             => /\ slast.out.val.group_by = GroupBy(<<>>)
                /\ slast.out.val.index = <<>>
    /\ (/\ AggregationCall
        /\ slast.self.group_by.kind # "None"
        /\ slast.partition.kind # "None"
        /\ ~IsWindow(GivenPartition)
        /\ GivenPartition # slast.self.group_by)
       => slast.out.err # "None"

\* max(GroupBy([])) on a Series grouped by g
C27_Witness ==
    /\ slast.op = "max"
    /\ slast.self.group_by = G1
    /\ slast.partition = G0
    /\ slast.out.err = PartitionMismatch

MinCountConflict == "NotImplementedError: min_count conflicting"

\* the last call was _derived_agg_func on a Series that is let through:
\* its expression holds no aggregate and no window function
GuardReached ==
    /\ slast.op = "derived_agg_func"
    /\ ~has_windowed_aggregate_function(slast.self.expression)
    /\ ~has_aggregate_function(slast.self.expression)

\* 'CASE WHEN <counted> >= <min_count> THEN <aggregate> ELSE NULL END'
CaseWhenText(counted, min_count, aggregate) ==
    <<"C", "A", "S", "E", " ", "W", "H", "E", "N", " ">> \o counted
    \o <<" ", ">", "=", " ">> \o IntText(min_count)
    \o <<" ", "T", "H", "E", "N", " ">> \o aggregate
    \o <<" ", "E", "L", "S", "E", " ", "N", "U", "L", "L", " ", "E", "N", "D">>

\* C28: with min_count > 0 and a true Window, _derived_agg_func raises the
\* configuration error exactly when the min_values of the window differ from
\* min_count, and otherwise leaves the expression without guard; with
\* min_count > 0 and a partition that is no Window the expression of the
\* result is 'CASE WHEN <count within the same partition> >= min_count THEN
\* <aggregate> ELSE NULL END'; with min_count None or <= 0 there is no guard.
C28_MinCountGuard ==
    GuardReached
    => /\ (MinCountGiven /\ IsWindow(EffectivePartition))
          => /\ slast.out.err = MinCountConflict
                <=> EffectivePartition.min_values # slast.other.min_count[1]
             /\ slast.out.err = "None"
                => slast.out.val.expression
                   = get_window_expression(EffectivePartition, NamedOrGiven)
       /\ (MinCountGiven /\ ~IsWindow(EffectivePartition) /\ slast.out.err = "None")
          => to_sql(slast.out.val.expression, <<>>).val
             = CaseWhenText(to_sql(GuardCount.val.expression, <<>>).val,
                            slast.other.min_count[1], to_sql(NamedOrGiven, <<>>).val)
       /\ (~MinCountGiven /\ slast.out.err = "None")
          => /\ slast.out.err # MinCountConflict
             /\ IF IsWindow(EffectivePartition)
                THEN slast.out.val.expression
                     = get_window_expression(EffectivePartition, NamedOrGiven)
                ELSE to_sql(slast.out.val.expression, <<>>).val = to_sql(NamedOrGiven, <<>>).val
       /\ ~MinCountGiven => slast.out.err # MinCountConflict

\* min_count=2 within a Window of min_values 1
C28_Witness ==
    /\ GuardReached
    /\ slast.partition = W1
    /\ slast.other.min_count = <<2>>
    /\ slast.out.err = MinCountConflict

\* the rhs of the last binary operation as the Series const_to_series gives
RhsSeries == const_to_series(slast.self, slast.other).val

\* the rhs needs no subquery: it is constant, or an independent subquery
\* already, or of the base_node and the group_by of self
NeedsNoSubquery ==
    /\ slast.op \in BinaryOps
    /\ \/ is_constant(RhsSeries.expression)
       \/ is_independent_subquery(RhsSeries.expression)
       \/ /\ RhsSeries.base_node = slast.self.base_node
          /\ RhsSeries.group_by = slast.self.group_by

\* the expression of the result holds the expression of the rhs as it is:
\* nested, or spliced in when it is a plain Expression; and no ModelReference
\* was added to those of self and of the rhs
RhsAsIs ==
    LET e == slast.out.val.expression
        rhs == RhsSeries.expression
    IN /\ IF rhs.kind = "Expression"
          THEN \E i \in DOMAIN e.data :
                   /\ i + Len(rhs.data) - 1 <= Len(e.data)
                   /\ SubSeq(e.data, i, i + Len(rhs.data) - 1) = rhs.data
                   /\ \A j \in i + Len(rhs.data) .. Len(e.data) : IsRawToken(e.data[j])
          ELSE /\ \E i \in DOMAIN e.data : IsExpression(e.data[i])
               /\ LastNested(e) = rhs
       /\ Cardinality(ModelReferences(Leaves(e)))
          = Cardinality(ModelReferences(Leaves(slast.self.expression)))
            + Cardinality(ModelReferences(Leaves(rhs)))

\* the rhs is turned down for its context and is of a dtype that is not
\* accepted
FailsBoth ==
    /\ OtherContext
    /\ ~is_single_value(slast.other.expression)
    /\ Lower(slast.other.dtype) \notin slast.other_dtypes

\* C29 as stated: a binary operation whose rhs needs no subquery uses the
\* expression of the rhs as it is, without a ModelReference added, and a rhs
\* that fails the check of its context and that of its dtype gets the
\* context-incompatibility error.
C29_SubqueryOnlyWhenNeededAlways ==
    /\ (NeedsNoSubquery /\ slast.out.err = "None") => RhsAsIs
    /\ FailsBoth => slast.out.err = ContextError

\* C29 amended: the rhs that fails both gets the context-incompatibility
\* error when the list of accepted dtypes is not empty.
C29_SubqueryOnlyWhenNeeded ==
    /\ (NeedsNoSubquery /\ slast.out.err = "None") => RhsAsIs
    /\ (FailsBoth /\ slast.other_dtypes # {}) => slast.out.err = ContextError

\* an independent subquery of another base_node as rhs, used as it is
C29_Witness ==
    /\ slast.op \in BinaryOps
    /\ slast.other.kind = "Series"
    /\ is_independent_subquery(slast.other.expression)
    /\ slast.other.base_node # slast.self.base_node
    /\ slast.out.err = "None"
    /\ LastNested(slast.out.val.expression) = slast.other.expression

\* the Raw token a reference to column_name is resolved to
ResolvedReference(column_name, table_name) ==
    RawToken((IF table_name # <<>> THEN quote_identifier(table_name) \o <<".">> ELSE <<>>)
             \o quote_identifier(column_name))

RECURSIVE ResolvedFrom(_, _, _)
\* r is e with every ColumnReference token replaced, and nothing else changed:
\* the same class, as many elements in the same order, the nested Expressions
\* in the same places and of the same classes
ResolvedFrom(r, e, table_name) ==
    /\ r.kind = e.kind
    /\ Len(r.data) = Len(e.data)
    /\ \A i \in DOMAIN e.data :
           IF IsExpression(e.data[i])
           THEN IsExpression(r.data[i]) /\ ResolvedFrom(r.data[i], e.data[i], table_name)
           ELSE IF e.data[i].kind = "ColumnReferenceToken"
           THEN r.data[i] = ResolvedReference(e.data[i].column_name, table_name)
           ELSE r.data[i] = e.data[i]

\* C30: resolve_column_references(table_name) replaces each ColumnReference
\* token, at every depth, by one Raw token holding the quoted column name,
\* after the quoted table name and a dot when a table name is given; every
\* other token, the order, the nesting and the class of the Expression and of
\* each nested Expression are as they were, and so are is_constant,
\* is_single_value, is_independent_subquery and has_aggregate_function.
C30_ResolveFrame ==
    ResolveReturned
    => LET e == elast.args[1]
           r == elast.out.val
       IN /\ ResolvedFrom(r, e, elast.table)
          /\ ~HasToken(r, "ColumnReferenceToken")
          /\ is_constant(r) = is_constant(e)
          /\ is_single_value(r) = is_single_value(e)
          /\ is_independent_subquery(r) = is_independent_subquery(e)
          /\ has_aggregate_function(r) = has_aggregate_function(e)

\* a column reference within a nested Expression, resolved with a table name
C30_Witness ==
    /\ ResolveReturned
    /\ elast.table = <<"t">>
    /\ elast.args[1].kind # "Expression"
    /\ \E i \in DOMAIN elast.args[1].data :
           /\ IsExpression(elast.args[1].data[i])
           /\ HasToken(elast.args[1].data[i], "ColumnReferenceToken")
           /\ ~HasToken(elast.out.val.data[i], "ColumnReferenceToken")

EIdle ==
    /\ ex = NoValue /\ esteps = 0 /\ elast = NoCall

SIdle ==
    /\ cur = NoValue /\ csteps = 0 /\ cfrom = "none" /\ cmarks = {} /\ slast = NoValue

\* the Expression operations
Init == EInit /\ SIdle
Next ==
    \/ MakeRaw \/ MakeAggFunctionRaw \/ MakeStringValue \/ MakeColumnReference
    \/ MakeModelReference \/ MakeEmpty \/ DoWrap \/ DoConstruct \/ DoList \/ DoResolve
Spec == Init /\ [][Next]_vars

\* the Series operations
SeriesInit == SInit /\ EIdle
SeriesNext ==
    \/ Aggregate \/ WindowFunction \/ BinaryOperation \/ TableOperation
    \/ SortValues \/ AsType \/ IndependentSubquery \/ IsIn \/ ValueToExpression
    \/ DerivedAggFunc
SpecSeries == SeriesInit /\ [][SeriesNext]_vars

====
